---- MODULE Spec2Model ----
(***************************************************************************)
(* A model of the page content-stream interpreter of the render crate      *)
(* (src/render/src/lib.rs): Cache::render_page_n and the helpers it calls. *)
(*                                                                         *)
(* f32 values are modelled as exact rationals <<n, d>> (d > 0, lowest      *)
(* terms); the operands the model enumerates are small, so that no         *)
(* rounding of the f32 arithmetic is in play.  Ids handed out by the scene *)
(* (PaintId, ClipPathId) are 0-based as in the library.                    *)
(***************************************************************************)
EXTENDS Integers, Sequences, FiniteSets, TLC

\* ------------------------------------------------------------------------
\* Option<T>
\* ------------------------------------------------------------------------
None == [some |-> FALSE]

Some(x) == [some |-> TRUE, v |-> x]

IsSome(o) == o.some

\* ------------------------------------------------------------------------
\* f32 as exact rationals
\* ------------------------------------------------------------------------
Abs(x) == IF x < 0 THEN -x ELSE x

RECURSIVE GCD(_, _)
GCD(a, b) == IF b = 0 THEN a ELSE GCD(b, a % b)

Reduce(n, d, g) == <<n \div g, d \div g>>

Rat(n, d) == IF n = 0 THEN <<0, 1>> ELSE Reduce(n, d, GCD(Abs(n), d))

F(n) == <<n, 1>>

RAdd(a, b) == Rat(a[1] * b[2] + b[1] * a[2], a[2] * b[2])

\* An integer product beyond the integers at hand is kept as the largest of
\* them with its sign: an f32 holds it, and `as u8` saturates it alike.
Huge == 2147483647

Beyond(x, y) == x # 0 /\ y # 0 /\ Abs(x) > Huge \div Abs(y)

RMul(a, b) ==
    IF a[2] = 1 /\ b[2] = 1 /\ Beyond(a[1], b[1])
    THEN <<IF (a[1] < 0) = (b[1] < 0) THEN Huge ELSE -Huge, 1>>
    ELSE Rat(a[1] * b[1], a[2] * b[2])

RNeg(a) == <<-a[1], a[2]>>

RSub(a, b) == RAdd(a, RNeg(b))

RLt(a, b) == a[1] * b[2] < b[1] * a[2]

RLe(a, b) == a[1] * b[2] <= b[1] * a[2]

RMin(a, b) == IF RLe(a, b) THEN a ELSE b

RMax(a, b) == IF RLe(a, b) THEN b ELSE a

RAbs(a) == <<Abs(a[1]), a[2]>>

\* `v as u8`: truncation toward zero, saturating at 0 and 255.
AsU8(a) ==
    IF a[1] <= 0 THEN 0
    ELSE IF a[1] \div a[2] >= 255 THEN 255
    ELSE a[1] \div a[2]

\* ------------------------------------------------------------------------
\* Vector2F, RectF, Transform2F (pathfinder_geometry)
\* ------------------------------------------------------------------------
Vector2F(x, y) == <<x, y>>

VZero == Vector2F(F(0), F(0))

\* Transform2F::row_major(m11, m12, m13, m21, m22, m23): the point (x, y)
\* goes to (m11 x + m12 y + m13, m21 x + m22 y + m23).
row_major(a11, a12, a13, a21, a22, a23) ==
    [m11 |-> a11, m12 |-> a12, m13 |-> a13,
     m21 |-> a21, m22 |-> a22, m23 |-> a23]

\* Transform2F::default()
Identity == row_major(F(1), F(0), F(0), F(0), F(1), F(0))

from_translation(v) == row_major(F(1), F(0), v[1], F(0), F(1), v[2])

from_scale(v) == row_major(v[1], F(0), F(0), F(0), v[2], F(0))

\* A * B: apply B, then A.
TMul(A, B) ==
    [m11 |-> RAdd(RMul(A.m11, B.m11), RMul(A.m12, B.m21)),
     m12 |-> RAdd(RMul(A.m11, B.m12), RMul(A.m12, B.m22)),
     m13 |-> RAdd(RAdd(RMul(A.m11, B.m13), RMul(A.m12, B.m23)), A.m13),
     m21 |-> RAdd(RMul(A.m21, B.m11), RMul(A.m22, B.m21)),
     m22 |-> RAdd(RMul(A.m21, B.m12), RMul(A.m22, B.m22)),
     m23 |-> RAdd(RAdd(RMul(A.m21, B.m13), RMul(A.m22, B.m23)), A.m23)]

TApply(T, p) ==
    Vector2F(RAdd(RAdd(RMul(T.m11, p[1]), RMul(T.m12, p[2])), T.m13),
             RAdd(RAdd(RMul(T.m21, p[1]), RMul(T.m22, p[2])), T.m23))

\* RectF as its two corners.
RectF(origin, size) ==
    [origin |-> origin,
     lower_right |-> Vector2F(RAdd(origin[1], size[1]), RAdd(origin[2], size[2]))]

union_rect(r1, r2) ==
    [origin |-> Vector2F(RMin(r1.origin[1], r2.origin[1]),
                         RMin(r1.origin[2], r2.origin[2])),
     lower_right |-> Vector2F(RMax(r1.lower_right[1], r2.lower_right[1]),
                              RMax(r1.lower_right[2], r2.lower_right[2]))]

\* ------------------------------------------------------------------------
\* Primitive (pdf::primitive) and the operand macros
\* ------------------------------------------------------------------------
PInteger(i) == [kind |-> "Integer", int |-> i]

PNumber(r) == [kind |-> "Number", num |-> r]

PName(s) == [kind |-> "Name", name |-> s]

PString(bytes) == [kind |-> "String", bytes |-> bytes]

PArray(a) == [kind |-> "Array", array |-> a]

Ok(x) == [ok |-> TRUE, v |-> x]

Err(e) == [ok |-> FALSE, v |-> e]

\* Primitive::as_number: an Integer or a Number as f32.
as_number(p) ==
    IF p.kind = "Integer" THEN Ok(F(p.int))
    ELSE IF p.kind = "Number" THEN Ok(p.num)
    ELSE Err("UnexpectedPrimitive")

\* Primitive::as_integer (TryInto<i32>)
as_integer(p) ==
    IF p.kind = "Integer" THEN Ok(p.int) ELSE Err("UnexpectedPrimitive")

as_name(p) ==
    IF p.kind = "Name" THEN Ok(p.name) ELSE Err("UnexpectedPrimitive")

\* TryInto<&[u8]>
as_string(p) ==
    IF p.kind = "String" THEN Ok(p.bytes) ELSE Err("UnexpectedPrimitive")

\* TryInto<&[Primitive]>
as_array(p) ==
    IF p.kind = "Array" THEN Ok(p.array) ELSE Err("UnexpectedPrimitive")

\* ops!: `iter.next().ok_or(PdfError::EOF)?.try_into()?` for the i-th
\* variable; typ names the conversion.
ops_arg(ops, i, typ) ==
    IF i > Len(ops) THEN Err("EOF")
    ELSE CASE typ = "f32" -> as_number(ops[i])
           [] typ = "i32" -> as_integer(ops[i])
           [] typ = "bytes" -> as_string(ops[i])
           [] typ = "array" -> as_array(ops[i])
           [] typ = "prim" -> Ok(ops[i])

\* ops!: the first n variables, all of type typ: the values, or the first
\* error met in operand order.
RECURSIVE ops_from(_, _, _, _)
ops_from(ops, i, n, typ) ==
    IF i > n THEN Ok(<<>>)
    ELSE LET a == ops_arg(ops, i, typ)
         IN  IF ~a.ok THEN a
             ELSE LET rest == ops_from(ops, i + 1, n, typ)
                  IN  IF ~rest.ok THEN rest ELSE Ok(<<a.v>> \o rest.v)

ops_all(ops, n, typ) == ops_from(ops, 1, n, typ)

\* ops_p!: `iter.next().unwrap().as_number().unwrap()` twice per point; a
\* missing or non-numeric operand panics.  The points, or Err("panic").
RECURSIVE ops_p_from(_, _, _)
ops_p_from(ops, i, n) ==
    IF i > n THEN Ok(<<>>)
    ELSE IF 2 * i > Len(ops) THEN Err("panic")
    ELSE LET x == as_number(ops[2 * i - 1])
             y == as_number(ops[2 * i])
         IN  IF ~x.ok \/ ~y.ok THEN Err("panic")
             ELSE LET rest == ops_p_from(ops, i + 1, n)
                  IN  IF ~rest.ok THEN rest
                      ELSE Ok(<<Vector2F(x.v, y.v)>> \o rest.v)

ops_p(ops, n) == ops_p_from(ops, 1, n)

\* ------------------------------------------------------------------------
\* Paints
\* ------------------------------------------------------------------------
ColorU(r, g, b, a) == <<r, g, b, a>>

PaintColor(c) == [kind |-> "color", color |-> c, pattern |-> None]

PaintPattern(p) == [kind |-> "pattern", color |-> ColorU(0, 0, 0, 0), pattern |-> Some(p)]

Black == PaintColor(ColorU(0, 0, 0, 255))

White == PaintColor(ColorU(255, 255, 255, 255))

rgb2fill(r, g, b) ==
    PaintColor(ColorU(AsU8(RMul(r, F(255))), AsU8(RMul(g, F(255))),
                      AsU8(RMul(b, F(255))), 255))

gray2fill(g) == rgb2fill(g, g, g)

cmyk2fill(c, m, y, k) ==
    rgb2fill(RMul(RSub(F(1), c), RSub(F(1), k)),
             RMul(RSub(F(1), m), RSub(F(1), k)),
             RMul(RSub(F(1), y), RSub(F(1), k)))

\* ------------------------------------------------------------------------
\* Scene (pathfinder_renderer): the palette interns paints; paths and clip
\* paths are appended.
\* ------------------------------------------------------------------------
SceneNew == [paints |-> <<>>, paths |-> <<>>, clip_paths |-> <<>>, view_box |-> None]

PaintIdOf(scene, paint) ==
    IF \E i \in 1..Len(scene.paints) : scene.paints[i] = paint
    THEN (CHOOSE i \in 1..Len(scene.paints) : scene.paints[i] = paint) - 1
    ELSE Len(scene.paints)

\* Scene::push_paint: the id of an equal paint already in the palette, or the
\* id of the paint appended.  Returns <<scene', id>>.
push_paint_no_append(scene, paint) == <<scene, PaintIdOf(scene, paint)>>

push_paint(scene, paint) ==
    IF \E i \in 1..Len(scene.paints) : scene.paints[i] = paint
    THEN <<scene, PaintIdOf(scene, paint)>>
    ELSE <<[scene EXCEPT !.paints = Append(@, paint)], Len(scene.paints)>>

push_path(scene, draw_path) == [scene EXCEPT !.paths = Append(@, draw_path)]

\* Scene::push_clip_path: returns <<scene', id>>.
push_clip_path(scene, clip_path) ==
    <<[scene EXCEPT !.clip_paths = Append(@, clip_path)], Len(scene.clip_paths)>>

\* ------------------------------------------------------------------------
\* Outline and PathBuilder
\* ------------------------------------------------------------------------
Seg(kind, pts) == [seg |-> kind, pts |-> pts]

\* Outline::transformed
transformed(outline, T) ==
    [i \in 1..Len(outline) |->
        Seg(outline[i].seg,
            [j \in 1..Len(outline[i].pts) |-> TApply(T, outline[i].pts[j])])]

\* PathBuilder::new(): no segments, no current position.
PathBuilderNew == [outline |-> <<>>, pos |-> None]

move_to(pb, p) == [outline |-> Append(pb.outline, Seg("move", <<p>>)), pos |-> Some(p)]

line_to(pb, p) == [outline |-> Append(pb.outline, Seg("line", <<p>>)), pos |-> Some(p)]

cubic_curve_to(pb, c1, c2, p) ==
    [outline |-> Append(pb.outline, Seg("cubic", <<c1, c2, p>>)), pos |-> Some(p)]

close(pb) == [pb EXCEPT !.outline = Append(@, Seg("close", <<>>))]

\* PathBuilder::rect: a closed subpath through the four corners.
rect(pb, r) ==
    LET o == r.origin
        lr == r.lower_right
    IN  [outline |-> pb.outline \o
            <<Seg("move", <<o>>), Seg("line", <<Vector2F(lr[1], o[2])>>),
              Seg("line", <<lr>>), Seg("line", <<Vector2F(o[1], lr[2])>>),
              Seg("close", <<>>)>>,
         pos |-> Some(o)]

take_keeps(pb) == <<pb.outline, pb>>

\* PathBuilder::take: the outline built so far; the builder starts afresh.

take(pb) == <<pb.outline, PathBuilderNew>>

\* PathBuilder::clear
clear(pb) == PathBuilderNew

\* ------------------------------------------------------------------------
\* BBox
\* ------------------------------------------------------------------------
BBoxEmpty == None

\* The accumulators self_bbox and arg_bbox, the rects given to each, and the
\* method called last.
BBoxes(self_bbox, arg_bbox, self_rects, arg_rects, call) ==
    [self_bbox |-> self_bbox, arg_bbox |-> arg_bbox, self_rects |-> self_rects,
     arg_rects |-> arg_rects, call |-> call]

BBoxAdd_last(bb, r2) == Some(r2)

BBoxAdd(bb, r2) == IF bb.some THEN Some(union_rect(bb.v, r2)) ELSE Some(r2)

BBoxAddBBox(bb, other) == IF other.some THEN BBoxAdd(bb, other.v) ELSE bb

\* ------------------------------------------------------------------------
\* DrawMode, PathStyle, draw
\* ------------------------------------------------------------------------
StrokeStyle(cap, join, width) == [line_cap |-> cap, line_join |-> join, line_width |-> width]

\* The tuple variants of DrawMode keep their fields by position.
DrawMode(tag, fields) == [tag |-> tag, f |-> fields]

PathStyle(mode, fill_rule) == [mode |-> mode, fill_rule |-> fill_rule]

DrawPath(outline, stroke, paint, fill_rule, clip) ==
    [outline |-> outline, stroke |-> stroke, paint |-> paint,
     fill_rule |-> fill_rule, clip_path |-> clip]

\* OutlineStrokeToFill::new(path, stroke).offset().into_outline(): the outline
\* of the stroke of path, kept as the path and the style it was stroked with.
build_stroke(path, paint, stroke, style, clip) ==
    DrawPath(path, Some(stroke), paint, style.fill_rule, clip)

build_fill(path, paint, style, clip) ==
    DrawPath(path, None, paint, style.fill_rule, clip)

draw(scene, path, style, clip) ==
    LET m == style.mode
    IN  CASE m.tag = "None" -> scene
          [] m.tag = "Fill" -> push_path(scene, build_fill(path, m.f[1], style, clip))
          [] m.tag = "Stroke" ->
                push_path(scene, build_stroke(path, m.f[1], m.f[2], style, clip))
          [] m.tag = "FillThenStroke" ->
                \* DrawMode::FillThenStroke(fill_paint, stroke_paint, stroke)
                push_path(push_path(scene, build_fill(path, m.f[1], style, clip)),
                          build_stroke(path, m.f[2], m.f[3], style, clip))
          [] m.tag = "StrokeThenFill" ->
                \* DrawMode::StrokeThenFill(fill_paint, stroke, stroke_paint)
                push_path(push_path(scene, build_stroke(path, m.f[3], m.f[2], style, clip)),
                          build_fill(path, m.f[1], style, clip))

\* ------------------------------------------------------------------------
\* GraphicsState
\* ------------------------------------------------------------------------
line_style(gs) ==
    LET line_width == RMul(gs.stroke_width, gs.transform.m11)
    IN  StrokeStyle("Butt", <<"Miter", line_width>>, line_width)

fill_style(gs, fill_rule) == PathStyle(DrawMode("Fill", <<gs.fill_paint>>), fill_rule)

stroke_style(gs) ==
    PathStyle(DrawMode("Stroke", <<gs.stroke_paint, line_style(gs)>>), "Winding")

fill_then_stroke_style(gs, fill_rule) ==
    PathStyle(DrawMode("FillThenStroke",
                       <<gs.fill_paint, gs.stroke_paint, line_style(gs)>>), fill_rule)

stroke_then_fill_style(gs, fill_rule) ==
    PathStyle(DrawMode("StrokeThenFill",
                       <<gs.stroke_paint, line_style(gs), gs.fill_paint>>), fill_rule)

get_text_style_clip_fills(gs, mode) ==
    CASE mode \in {"Fill", "FillAndClip"} -> fill_style(gs, "Winding")
      [] mode \in {"Stroke", "StrokeAndClip"} -> stroke_style(gs)
      [] mode = "FillThenStroke" -> fill_then_stroke_style(gs, "Winding")
      [] OTHER -> PathStyle(DrawMode("None", <<>>), "Winding")

get_text_style(gs, mode) ==
    CASE mode = "Fill" -> fill_style(gs, "Winding")
      [] mode = "Stroke" -> stroke_style(gs)
      [] mode = "FillThenStroke" -> fill_then_stroke_style(gs, "Winding")
      [] OTHER -> PathStyle(DrawMode("None", <<>>), "Winding")

\* fill_rule(s): even-odd for the starred operators.
fill_rule(s) == IF s \in {"f*", "B*", "b*", "W*"} THEN "EvenOdd" ELSE "Winding"

\* ------------------------------------------------------------------------
\* HashMap as a function
\* ------------------------------------------------------------------------
MapEmpty == <<>>

MapGet(m, k) == IF k \in DOMAIN m THEN Some(m[k]) ELSE None

MapInsert(m, k, v) == [x \in (DOMAIN m) \cup {k} |-> IF x = k THEN v ELSE m[x]]

\* ------------------------------------------------------------------------
\* The fonts of the document: the parsed font objects (the font crate's
\* Font) and the document's font resources (pdf::font::Font).
\* ------------------------------------------------------------------------
Glyph(path, advance_x) == [path |-> path, advance_x |-> advance_x]

GlyphBox ==
    <<Seg("move", <<Vector2F(F(0), F(0))>>), Seg("line", <<Vector2F(F(10), F(0))>>),
      Seg("line", <<Vector2F(F(10), F(10))>>), Seg("close", <<>>)>>

\* A Latin font: glyph 0 (.notdef, a box), 1 ("A", a box), 2 (space, no
\* outline); code point 66 ("B") maps to glyph 3, which the font lacks.
LatinFont ==
    [font_matrix |-> from_scale(Vector2F(<<1, 10>>, <<1, 10>>)),
     glyphs |-> (0 :> Glyph(GlyphBox, F(10)) @@ 1 :> Glyph(GlyphBox, F(10))
                 @@ 2 :> Glyph(<<>>, F(5))),
     encoding |-> Some("Unicode"),
     codepoints |-> (65 :> 1 @@ 32 :> 2 @@ 66 :> 3),
     names |-> ("A" :> 1 @@ "space" :> 2)]

\* A CID-keyed font: the glyph id is the code; glyphs 0, 1 and 32.
CidFont ==
    [font_matrix |-> from_scale(Vector2F(<<1, 10>>, <<1, 10>>)),
     glyphs |-> (0 :> Glyph(GlyphBox, F(10)) @@ 1 :> Glyph(GlyphBox, F(10))
                 @@ 32 :> Glyph(<<>>, F(5))),
     encoding |-> None,
     codepoints |-> MapEmpty,
     names |-> MapEmpty]

Encoding(base, differences) == [base |-> base, differences |-> differences]

PdfFont(name, is_cid, encoding, cid_to_gid_map, data, font) ==
    [name |-> name, is_cid |-> is_cid, encoding |-> encoding,
     cid_to_gid_map |-> cid_to_gid_map, data |-> data, font |-> font]

\* data: which of standard_font() / embedded_data() yields the font bytes.
FontSimple ==
    PdfFont("Simple", FALSE, Some(Encoding("WinAnsiEncoding", (66 :> "A"))),
            None, "standard", LatinFont)

FontCid ==
    PdfFont("Cid", TRUE, Some(Encoding("IdentityH", MapEmpty)), None, "embedded", CidFont)

FontNoData ==
    PdfFont("NoData", FALSE, None, None, "none", LatinFont)

\* A font whose glyphs differ in their advance: 0 (.notdef), 1 ("A"),
\* 2 (space, no outline), 3 (Euro).
GlyphFont ==
    [font_matrix |-> from_scale(Vector2F(<<1, 10>>, <<1, 10>>)),
     glyphs |-> (0 :> Glyph(GlyphBox, F(10)) @@ 1 :> Glyph(GlyphBox, F(7))
                 @@ 2 :> Glyph(<<>>, F(5)) @@ 3 :> Glyph(GlyphBox, F(3))),
     encoding |-> Some("Unicode"),
     codepoints |-> (65 :> 1 @@ 32 :> 2 @@ 8364 :> 3),
     names |-> ("A" :> 1 @@ "space" :> 2 @@ "Euro" :> 3)]

\* The same glyphs in a font that reports no encoding.
BareFont == [GlyphFont EXCEPT !.encoding = None, !.codepoints = (65 :> 1 @@ 128 :> 3)]

\* The same glyphs in a font that maps no code point and no name.
NoCmapFont == [GlyphFont EXCEPT !.encoding = None, !.codepoints = MapEmpty, !.names = MapEmpty]

\* The font dictionaries named "Simple" on the further pages of the document.
BuildCases ==
    <<PdfFont("Simple", FALSE, None, Some(<<1, 0, 2>>), "embedded", GlyphFont),
      PdfFont("Simple", FALSE, Some(Encoding("IdentityH", MapEmpty)), Some(<<3, 1>>),
              "embedded", GlyphFont),
      PdfFont("Simple", FALSE, None, Some(<<>>), "embedded", GlyphFont),
      PdfFont("Simple", FALSE, Some(Encoding("IdentityH", MapEmpty)), None, "embedded", GlyphFont),
      PdfFont("Simple", FALSE,
              Some(Encoding("WinAnsiEncoding",
                            (66 :> "A" @@ 65 :> "zed" @@ 200 :> "Euro" @@ 32 :> "A"))),
              None, "embedded", GlyphFont),
      PdfFont("Simple", FALSE, None, None, "embedded", GlyphFont),
      PdfFont("Simple", FALSE, Some(Encoding("WinAnsiEncoding", MapEmpty)), None,
              "embedded", BareFont),
      PdfFont("Simple", FALSE, Some(Encoding("MacRomanEncoding", (65 :> "A"))), None,
              "embedded", NoCmapFont),
      PdfFont("Simple", TRUE, None, None, "embedded", NoCmapFont),
      PdfFont("Simple", TRUE, Some(Encoding("StandardEncoding", (7 :> "A"))), None,
              "embedded", GlyphFont)>>

\* A cid-to-gid table of 65537 entries: glyph 1 at the index 65536, glyph 0
\* at the others.
LongTable == [i \in 1..65537 |-> IF i = 65537 THEN 1 ELSE 0]

LongTableFont == PdfFont("Simple", FALSE, None, Some(LongTable), "embedded", GlyphFont)

LongTablePage == Len(BuildCases) + 3

\* Transcoder::translate for the byte b from a named source encoding to the
\* font's encoding: WinAnsi 0x80 is the Euro sign U+20AC and 0x81 is not
\* assigned; on the other bytes the model uses the encodings agree.
transcoder_translate(source, dest, b) ==
    IF source = "WinAnsiEncoding" /\ b = 128 THEN Some(8364)
    ELSE IF source = "WinAnsiEncoding" /\ b = 129 THEN None
    ELSE Some(b)

gid_for_codepoint(font, cp) == MapGet(font.codepoints, cp)

gid_for_name(font, name) == MapGet(font.names, name)

\* Font::glyph
glyph(font, gid) == MapGet(font.glyphs, gid)

\* ------------------------------------------------------------------------
\* FontEntry::build
\* ------------------------------------------------------------------------
TextEncodingCID == [kind |-> "CID", cmap |-> MapEmpty]

TextEncodingCmap(cmap) == [kind |-> "Cmap", cmap |-> cmap]

FontEntry(font, encoding, is_cid) == [font |-> font, encoding |-> encoding, is_cid |-> is_cid]

U16(i) == i % 65536

\* The cid_to_gid_map branch: collect() of (cid as u16, GlyphId(gid)) in index
\* order; a later index with the same key replaces the earlier entry.
CidToGidCmap(map) ==
    [k \in {U16(i - 1) : i \in 1..Len(map)} |->
        map[k + 1 + 65536 * ((Len(map) - 1 - k) \div 65536)]]

\* The named-encoding branch before the differences.
BaseCmap(font, pdf_font) ==
    LET base_encoding == IF pdf_font.encoding.some THEN Some(pdf_font.encoding.v.base) ELSE None
        source_encoding ==
            IF base_encoding.some /\ base_encoding.v \in {"StandardEncoding", "SymbolEncoding", "WinAnsiEncoding"}
            THEN base_encoding ELSE None
        font_encoding == font.encoding
        gid(b) == IF source_encoding.some /\ font_encoding.some
                  THEN LET cp == transcoder_translate(source_encoding.v, font_encoding.v, b)
                       IN  IF cp.some THEN gid_for_codepoint(font, cp.v) ELSE None
                  ELSE gid_for_codepoint(font, b)
    IN  [b \in {c \in 0..255 : gid(c).some} |-> gid(b).v]

\* The differences applied over cmap: each (cp, name) whose name the font
\* knows is inserted under cp as u16.
WithDifferences(font, cmap, differences) ==
    LET known == {cp \in DOMAIN differences : gid_for_name(font, differences[cp]).some}
        src(k) == CHOOSE cp \in known : U16(cp) = k
    IN  [k \in (DOMAIN cmap) \cup {U16(cp) : cp \in known} |->
            IF \E cp \in known : U16(cp) = k
            THEN gid_for_name(font, differences[src(k)]).v
            ELSE cmap[k]]

FontEntry_build_identity_first(font, pdf_font) ==
    IF pdf_font.encoding.some /\ pdf_font.encoding.v.base = "IdentityH"
    THEN FontEntry(font, TextEncodingCID, TRUE)
    ELSE IF pdf_font.cid_to_gid_map.some
    THEN FontEntry(font, TextEncodingCmap(CidToGidCmap(pdf_font.cid_to_gid_map.v)), TRUE)
    ELSE LET base == BaseCmap(font, pdf_font)
             cmap == IF pdf_font.encoding.some
                     THEN WithDifferences(font, base, pdf_font.encoding.v.differences)
                     ELSE base
         IN  FontEntry(font,
                       IF DOMAIN cmap = {} THEN TextEncodingCID ELSE TextEncodingCmap(cmap),
                       pdf_font.is_cid)

FontEntry_build(font, pdf_font) ==
    IF pdf_font.cid_to_gid_map.some
    THEN FontEntry(font, TextEncodingCmap(CidToGidCmap(pdf_font.cid_to_gid_map.v)), TRUE)
    ELSE IF pdf_font.encoding.some /\ pdf_font.encoding.v.base = "IdentityH"
    THEN FontEntry(font, TextEncodingCID, TRUE)
    ELSE LET base == BaseCmap(font, pdf_font)
             cmap == IF pdf_font.encoding.some
                     THEN WithDifferences(font, base, pdf_font.encoding.v.differences)
                     ELSE base
         IN  FontEntry(font,
                       IF DOMAIN cmap = {} THEN TextEncodingCID ELSE TextEncodingCmap(cmap),
                       pdf_font.is_cid)

load_font_replaces(cache, pdf_font) ==
    CASE pdf_font.data \in {"embedded", "standard"} ->
             Ok(MapInsert(cache, pdf_font.name, FontEntry_build(pdf_font.font, pdf_font)))
      [] pdf_font.data = "embedded_err" -> Err("panic")
      [] pdf_font.data = "none" -> Ok(cache)

\* Cache::load_font on the cache `cache` (font name -> FontEntry): the cache
\* afterwards, or a panic when the embedded data cannot be decoded.
load_font(cache, pdf_font) ==
    IF pdf_font.name \in DOMAIN cache THEN Ok(cache)
    ELSE CASE pdf_font.data \in {"embedded", "standard"} ->
                Ok(MapInsert(cache, pdf_font.name, FontEntry_build(pdf_font.font, pdf_font)))
           [] pdf_font.data = "embedded_err" -> Err("panic")
           [] pdf_font.data = "none" -> Ok(cache)

\* Cache::get_font
get_font(cache, font_name) == MapGet(cache, font_name)

\* ------------------------------------------------------------------------
\* TextState
\* ------------------------------------------------------------------------
\* font_entry is a reference into the cache: the font name it is stored under.
TextStateNew ==
    [text_matrix |-> Identity, line_matrix |-> Identity,
     char_space |-> F(0), word_space |-> F(0), horiz_scale |-> F(1),
     leading |-> F(0), font_entry |-> None, font_size |-> F(0),
     mode |-> "Fill", rise |-> F(0), knockout |-> F(0)]

set_matrix(ts, m) == [ts EXCEPT !.text_matrix = m, !.line_matrix = m]

reset_matrix(ts) == set_matrix(ts, Identity)

translate_from_text(ts, v) == set_matrix(ts, TMul(ts.text_matrix, from_translation(v)))

\* TextState::translate
translate(ts, v) == set_matrix(ts, TMul(ts.line_matrix, from_translation(v)))

next_line(ts) == translate(ts, Vector2F(F(0), RMul(RNeg(ts.leading), ts.font_size)))

advance_line(ts, delta) ==
    set_matrix(ts, TMul(ts.text_matrix,
                        from_translation(Vector2F(RMul(RMul(delta, ts.font_size), ts.horiz_scale),
                                                  F(0)))))

\* TextState::advance
advance(ts, delta) ==
    LET adv == RMul(RMul(delta, ts.font_size), ts.horiz_scale)
    IN  [ts EXCEPT !.text_matrix = TMul(@, from_translation(Vector2F(adv, F(0))))]

\* Outline::bounds of a non-empty outline.
OutlinePoints(outline) ==
    UNION {{outline[i].pts[j] : j \in 1..Len(outline[i].pts)} : i \in 1..Len(outline)}

RMinOf(S) == CHOOSE x \in S : \A y \in S : RLe(x, y)

RMaxOf(S) == CHOOSE x \in S : \A y \in S : RLe(y, x)

bounds(outline) ==
    LET P == OutlinePoints(outline)
        xs == {p[1] : p \in P}
        ys == {p[2] : p \in P}
    IN  [origin |-> Vector2F(RMinOf(xs), RMinOf(ys)),
         lower_right |-> Vector2F(RMaxOf(xs), RMaxOf(ys))]

\* The state add_glyphs and draw_text work on: the text state, the scene the
\* draw closure pushes to, and the bounding box collected.
TextRun(ts, scene, bbox) == [ts |-> ts, scene |-> scene, bbox |-> bbox]

\* tr of add_glyphs: the text-space scaling times the font matrix.
GlyphTr(ts, e) ==
    TMul(row_major(RMul(ts.horiz_scale, ts.font_size), F(0), F(0),
                   F(0), ts.font_size, ts.rise),
         e.font.font_matrix)

GlyphAdvance_char_space(ts, tr, cid, advance_x) ==
    RAdd(RMul(RMul(ts.char_space, ts.horiz_scale), ts.font_size), RMul(tr.m11, advance_x))

\* The advance of a glyph of width advance_x shown for the code cid.
GlyphAdvance(ts, tr, cid, advance_x) ==
    RAdd(RMul(RMul(IF cid = 32 THEN ts.word_space ELSE ts.char_space, ts.horiz_scale),
              ts.font_size),
         RMul(tr.m11, advance_x))

\* The glyph's path (already transformed) is drawn when it has contours, its
\* bounds join the bbox, and text_matrix moves on by adv.
PlaceGlyph(run, path, adv, style, clip) ==
    TextRun([run.ts EXCEPT !.text_matrix = TMul(@, from_translation(Vector2F(adv, F(0))))],
            IF Len(path) # 0 THEN draw(run.scene, path, style, clip) ELSE run.scene,
            IF Len(path) # 0 THEN BBoxAdd(run.bbox, bounds(path)) ELSE run.bbox)

ShowGlyph(run, g, tr, root_tr, style, clip, cid) ==
    IF g.some
    THEN PlaceGlyph(run,
                    transformed(g.v.path, TMul(TMul(root_tr, run.ts.text_matrix), tr)),
                    GlyphAdvance(run.ts, tr, cid, g.v.advance_x), style, clip)
    ELSE run

\* One turn of the loop of add_glyphs for the pair (cid, gid): a code without
\* a gid is shown as GlyphId(0); a gid the font has no glyph for is skipped.
add_glyph(run, e, root_tr, style, clip, cid, gid_opt) ==
    ShowGlyph(run, glyph(e.font, IF gid_opt.some THEN gid_opt.v ELSE 0),
              GlyphTr(run.ts, e), root_tr, style, clip, cid)

RECURSIVE add_glyphs_from(_, _, _, _, _, _, _)
add_glyphs_from(run, e, root_tr, style, clip, glyphs, i) ==
    IF i > Len(glyphs) THEN run
    ELSE add_glyphs_from(add_glyph(run, e, root_tr, style, clip, glyphs[i][1], glyphs[i][2]),
                         e, root_tr, style, clip, glyphs, i + 1)

\* TextState::add_glyphs: the bbox returned starts empty.
add_glyphs(ts, scene, e, root_tr, style, clip, glyphs) ==
    add_glyphs_from(TextRun(ts, scene, BBoxEmpty), e, root_tr, style, clip, glyphs, 1)

\* get_glyph of draw_text
get_glyph(e, cid) ==
    <<cid, IF e.encoding.kind = "CID" THEN Some(cid) ELSE MapGet(e.encoding.cmap, cid)>>

Codes_bytes(e, data) == data

\* The codes of a byte string: chunks_exact(2) as big-endian u16 when is_cid,
\* else one code per byte.
Codes(e, data) ==
    IF e.is_cid
    THEN [i \in 1..(Len(data) \div 2) |-> data[2 * i - 1] * 256 + data[2 * i]]
    ELSE data

\* TextState::draw_text; cache is the font cache font_entry points into.
GlyphsOf(e, codes) == [i \in 1..Len(codes) |-> get_glyph(e, codes[i])]

draw_text(ts, scene, cache, root_tr, style, clip, data) ==
    IF ts.font_entry.some
    THEN add_glyphs(ts, scene, cache[ts.font_entry.v], root_tr, style, clip,
                    GlyphsOf(cache[ts.font_entry.v], Codes(cache[ts.font_entry.v], data)))
    ELSE TextRun(ts, scene, BBoxEmpty)

\* ------------------------------------------------------------------------
\* Colour spaces and convert_color
\* ------------------------------------------------------------------------
ColorSpace(kind, base, lut) == [kind |-> kind, base |-> base, lut |-> lut]

DeviceRGB == ColorSpace("DeviceRGB", "", <<>>)

DeviceCMYK == ColorSpace("DeviceCMYK", "", <<>>)

DeviceGray == ColorSpace("DeviceGray", "", <<>>)

Separation == ColorSpace("Separation", "", <<>>)

Indexed(base, lut) == ColorSpace("Indexed", base, lut)

\* The tint function of the document's Separation space: x -> (1-x, 1-x, 1-x).
SeparationApply(x) == <<RSub(F(1), x), RSub(F(1), x), RSub(F(1), x)>>

\* &lut[k ..][j], 0-based: a panic when out of range.
LutInRange(lut, k, n) == k >= 0 /\ k + n <= Len(lut)

\* convert_color: Ok(paint), Err(e) for an operand error, Err("panic") for
\* unimplemented!() and for a slice index out of range.
convert_color(cs, ops) ==
    CASE cs.kind \in {"DeviceRGB", "Icc"} ->
            LET a == ops_all(ops, 3, "f32")
            IN  IF a.ok THEN Ok(rgb2fill(a.v[1], a.v[2], a.v[3])) ELSE a
      [] cs.kind = "DeviceCMYK" ->
            LET a == ops_all(ops, 4, "f32")
            IN  IF a.ok THEN Ok(cmyk2fill(a.v[1], a.v[2], a.v[3], a.v[4])) ELSE a
      [] cs.kind = "Separation" ->
            LET a == ops_all(ops, 1, "f32")
            IN  IF a.ok
                THEN LET rgb == SeparationApply(a.v[1])
                     IN  Ok(rgb2fill(rgb[1], rgb[2], rgb[3]))
                ELSE a
      [] cs.kind = "Indexed" ->
            LET a == ops_all(ops, 1, "i32")
            IN  IF ~a.ok THEN a
                ELSE LET i == a.v[1]
                     IN  CASE cs.base = "DeviceRGB" ->
                                IF LutInRange(cs.lut, 3 * i, 3)
                                THEN Ok(PaintColor(ColorU(cs.lut[3 * i + 1], cs.lut[3 * i + 2],
                                                          cs.lut[3 * i + 3], 255)))
                                ELSE Err("panic")
                           [] cs.base = "DeviceCMYK" ->
                                IF LutInRange(cs.lut, 4 * i, 4)
                                THEN LET cvt(b) == RMul(F(b), F(255))
                                     IN  Ok(cmyk2fill(cvt(cs.lut[4 * i + 1]), cvt(cs.lut[4 * i + 2]),
                                                      cvt(cs.lut[4 * i + 3]), cvt(cs.lut[4 * i + 4])))
                                ELSE Err("panic")
                           [] OTHER -> Err("panic")
      [] OTHER -> Err("panic")

\* ------------------------------------------------------------------------
\* The page rendered: media box, resources, the file's objects
\* ------------------------------------------------------------------------
MediaBox == [left |-> F(0), right |-> F(8), top |-> F(8), bottom |-> F(0)]

ExtGState(line_width, font) == [line_width |-> line_width, font |-> font]

Image(width, height, data) == [kind |-> "Image", width |-> width, height |-> height, data |-> data]

FormXObject == [kind |-> "Form", width |-> 0, height |-> 0, data |-> <<>>]

Resources ==
    [fonts |-> ("F1" :> FontSimple @@ "F2" :> FontCid @@ "F3" :> FontNoData),
     graphics_states |->
        ("GS1" :> ExtGState(Some(F(3)), Some(<<FontSimple, F(12)>>))
         @@ "GS2" :> ExtGState(None, Some(<<FontNoData, F(10)>>))),
     color_spaces |->
        ("CS0" :> DeviceCMYK @@ "CS1" :> Indexed("DeviceRGB", <<1, 2, 3, 4, 5, 6>>)
         @@ "CS2" :> Indexed("DeviceCMYK", <<0, 255, 255, 0, 255, 255, 255, 255, 1, 0, 0, 1>>)
         @@ "CS3" :> Separation @@ "CS4" :> DeviceGray),
     xobjects |-> ("Im1" :> 1 @@ "Fm1" :> 2 @@ "Gone" :> 3)]

\* PdfFile::get of an xobject reference: reference 3 cannot be resolved.
FileGet(ref) ==
    CASE ref = 1 -> Ok(Image(1, 1, <<200>>))
      [] ref = 2 -> Ok(FormXObject)
      [] OTHER -> Err("MissingEntry")

\* ------------------------------------------------------------------------
\* The operator handlers of render_page_n.  L holds the locals of the call
\* (graphics_state, text_state, stack, path_builder, scene, items), the font
\* cache (fonts) and how the handler left the loop: outcome is "continue",
\* "err" (return Err(error)) or "panic".
\* ------------------------------------------------------------------------
Operation(operator, operands) == [operator |-> operator, operands |-> operands]

Fail(L, e) == [L EXCEPT !.outcome = "err", !.error = e]

Panic(L, msg) == [L EXCEPT !.outcome = "panic", !.error = msg]

\* An error of an operand macro: ops_p! panics, ops! returns the error.
Raise(L, e) == IF e = "panic" THEN Panic(L, "unwrap") ELSE Fail(L, e)

Op_m(L, op) ==
    LET a == ops_p(op.operands, 1)
    IN  IF ~a.ok THEN Raise(L, a.v)
        ELSE [L EXCEPT !.path_builder = move_to(@, a.v[1])]

Op_l(L, op) ==
    LET a == ops_p(op.operands, 1)
    IN  IF ~a.ok THEN Raise(L, a.v)
        ELSE [L EXCEPT !.path_builder = line_to(@, a.v[1])]

Op_c(L, op) ==
    LET a == ops_p(op.operands, 3)
    IN  IF ~a.ok THEN Raise(L, a.v)
        ELSE [L EXCEPT !.path_builder = cubic_curve_to(@, a.v[1], a.v[2], a.v[3])]

Op_v(L, op) ==
    LET a == ops_p(op.operands, 2)
    IN  IF ~a.ok THEN Raise(L, a.v)
        ELSE IF ~L.path_builder.pos.some THEN Panic(L, "unwrap")
        ELSE [L EXCEPT !.path_builder =
                  cubic_curve_to(@, L.path_builder.pos.v, a.v[1], a.v[2])]

Op_y(L, op) ==
    LET a == ops_p(op.operands, 2)
    IN  IF ~a.ok THEN Raise(L, a.v)
        ELSE [L EXCEPT !.path_builder = cubic_curve_to(@, a.v[1], a.v[2], a.v[2])]

Op_h(L, op) == [L EXCEPT !.path_builder = close(@)]

Op_re(L, op) ==
    LET a == ops_p(op.operands, 2)
    IN  IF ~a.ok THEN Raise(L, a.v)
        ELSE [L EXCEPT !.path_builder = rect(@, RectF(a.v[1], a.v[2]))]

\* The painting arms: optionally close, take the path, transform it by the
\* current transform and draw it with style under the current clip.
PaintPath(L, closes, style) ==
    LET pb == IF closes THEN close(L.path_builder) ELSE L.path_builder
        t == take(pb)
        path == transformed(t[1], L.graphics_state.transform)
    IN  [L EXCEPT !.path_builder = t[2],
                  !.scene = draw(@, path, style, L.graphics_state.clip_path)]

Op_S(L, op) == PaintPath(L, FALSE, stroke_style(L.graphics_state))

Op_s(L, op) == PaintPath(L, TRUE, stroke_style(L.graphics_state))

Op_f(L, op) == PaintPath(L, TRUE, fill_style(L.graphics_state, fill_rule(op.operator)))

Op_B(L, op) ==
    PaintPath(L, TRUE, fill_then_stroke_style(L.graphics_state, fill_rule(op.operator)))

Op_b(L, op) ==
    PaintPath(L, TRUE, stroke_then_fill_style(L.graphics_state, fill_rule(op.operator)))

Op_n_clears_clip(L, op) ==
    [L EXCEPT !.path_builder = clear(@), !.graphics_state.clip_path = None]

Op_n(L, op) == [L EXCEPT !.path_builder = clear(@)]

ClipPath(outline, rule) == [outline |-> outline, fill_rule |-> rule]

Op_W(L, op) ==
    LET t == take(L.path_builder)
        path == transformed(t[1], L.graphics_state.transform)
        pushed == push_clip_path(L.scene, ClipPath(path, fill_rule(op.operator)))
    IN  [L EXCEPT !.path_builder = t[2],
                  !.scene = pushed[1],
                  !.graphics_state.clip_path = Some(pushed[2])]

Op_q_no_push(L, op) == L

Op_q(L, op) == [L EXCEPT !.stack = Append(@, <<L.graphics_state, L.text_state>>)]

Op_Q_keeps_text_state(L, op) ==
    IF Len(L.stack) = 0 THEN Panic(L, "graphcs stack is empty")
    ELSE [L EXCEPT !.graphics_state = L.stack[Len(L.stack)][1],
                   !.stack = SubSeq(@, 1, Len(@) - 1)]

Op_Q(L, op) ==
    IF Len(L.stack) = 0 THEN Panic(L, "graphcs stack is empty")
    ELSE [L EXCEPT !.graphics_state = L.stack[Len(L.stack)][1],
                   !.text_state = L.stack[Len(L.stack)][2],
                   !.stack = SubSeq(@, 1, Len(@) - 1)]

Op_cm_left(L, op) ==
    LET a == ops_all(op.operands, 6, "f32")
    IN  IF ~a.ok THEN Raise(L, a.v)
        ELSE [L EXCEPT !.graphics_state.transform =
                  TMul(row_major(a.v[1], a.v[3], a.v[5], a.v[2], a.v[4], a.v[6]), @)]

Op_cm(L, op) ==
    LET a == ops_all(op.operands, 6, "f32")
    IN  IF ~a.ok THEN Raise(L, a.v)
        ELSE [L EXCEPT !.graphics_state.transform =
                  TMul(@, row_major(a.v[1], a.v[3], a.v[5], a.v[2], a.v[4], a.v[6]))]

Op_w(L, op) ==
    LET a == ops_all(op.operands, 1, "f32")
    IN  IF ~a.ok THEN Raise(L, a.v)
        ELSE [L EXCEPT !.graphics_state.stroke_width = a.v[1]]

\* "J", "j", "M", "d", "ET" and every operator without an arm.
Op_nop(L, op) == L

\* The font of a gs dictionary or of Tf: set when the cache has it, else cleared.
SetFont(L, font, size) ==
    IF get_font(L.fonts, font.name).some
    THEN [L EXCEPT !.text_state.font_entry = Some(font.name),
                   !.text_state.font_size = size]
    ELSE [L EXCEPT !.text_state.font_entry = None]

Op_gs(L, op) ==
    LET a == ops_all(op.operands, 1, "prim")
    IN  IF ~a.ok THEN Raise(L, a.v)
        ELSE LET name == as_name(a.v[1])
             IN  IF ~name.ok THEN Fail(L, name.v)
                 ELSE IF name.v \notin DOMAIN Resources.graphics_states
                 THEN Fail(L, "NoneError")
                 ELSE LET gs == Resources.graphics_states[name.v]
                          L1 == IF gs.line_width.some
                                THEN [L EXCEPT !.graphics_state.stroke_width = gs.line_width.v]
                                ELSE L
                      IN  IF gs.font.some
                          THEN SetFont(L1, gs.font.v[1], gs.font.v[2])
                          ELSE L1

\* The colour arms: intern the paint and store its id.
SetStrokePaint(L, paint) ==
    LET pushed == push_paint(L.scene, paint)
    IN  [L EXCEPT !.scene = pushed[1], !.graphics_state.stroke_paint = pushed[2]]

SetFillPaint(L, paint) ==
    LET pushed == push_paint(L.scene, paint)
    IN  [L EXCEPT !.scene = pushed[1], !.graphics_state.fill_paint = pushed[2]]

\* "SC" | "SCN" | "RG"
Op_SC(L, op) ==
    LET paint == convert_color(L.graphics_state.stroke_color_space, op.operands)
    IN  IF ~paint.ok THEN Raise(L, paint.v) ELSE SetStrokePaint(L, paint.v)

\* "sc" | "scn" | "rg"
Op_sc(L, op) ==
    LET paint == convert_color(L.graphics_state.fill_color_space, op.operands)
    IN  IF ~paint.ok THEN Raise(L, paint.v) ELSE SetFillPaint(L, paint.v)

Op_G(L, op) ==
    LET a == ops_all(op.operands, 1, "f32")
    IN  IF ~a.ok THEN Raise(L, a.v) ELSE SetStrokePaint(L, gray2fill(a.v[1]))

Op_g(L, op) ==
    LET a == ops_all(op.operands, 1, "f32")
    IN  IF ~a.ok THEN Raise(L, a.v) ELSE SetFillPaint(L, gray2fill(a.v[1]))

Op_K(L, op) ==
    LET a == ops_all(op.operands, 4, "f32")
    IN  IF ~a.ok THEN Raise(L, a.v)
        ELSE SetStrokePaint(L, cmyk2fill(a.v[1], a.v[2], a.v[3], a.v[4]))

Op_k(L, op) ==
    LET a == ops_all(op.operands, 4, "f32")
    IN  IF ~a.ok THEN Raise(L, a.v)
        ELSE SetFillPaint(L, cmyk2fill(a.v[1], a.v[2], a.v[3], a.v[4]))

\* The colour space named by the operand of cs / CS: Ok(space), an operand
\* error, or Err("panic") for `color_spaces.get(name).unwrap()` on None.
NamedColorSpace(op) ==
    LET a == ops_all(op.operands, 1, "prim")
    IN  IF ~a.ok THEN a
        ELSE LET name == as_name(a.v[1])
             IN  IF ~name.ok THEN name
                 ELSE IF name.v \in DOMAIN Resources.color_spaces
                 THEN Ok(Resources.color_spaces[name.v])
                 ELSE Err("panic")

Op_cs(L, op) ==
    LET cs == NamedColorSpace(op)
    IN  IF ~cs.ok THEN Raise(L, cs.v)
        ELSE [L EXCEPT !.graphics_state.fill_color_space = cs.v]

Op_CS(L, op) ==
    LET cs == NamedColorSpace(op)
    IN  IF ~cs.ok THEN Raise(L, cs.v)
        ELSE [L EXCEPT !.graphics_state.stroke_color_space = cs.v]

Op_BT(L, op) == [L EXCEPT !.text_state = reset_matrix(@)]

Op_Tc(L, op) ==
    LET a == ops_all(op.operands, 1, "f32")
    IN  IF ~a.ok THEN Raise(L, a.v) ELSE [L EXCEPT !.text_state.char_space = a.v[1]]

Op_Tw(L, op) ==
    LET a == ops_all(op.operands, 1, "f32")
    IN  IF ~a.ok THEN Raise(L, a.v) ELSE [L EXCEPT !.text_state.word_space = a.v[1]]

Op_Tz(L, op) ==
    LET a == ops_all(op.operands, 1, "f32")
    IN  IF ~a.ok THEN Raise(L, a.v)
        ELSE [L EXCEPT !.text_state.horiz_scale = RMul(<<1, 100>>, a.v[1])]

Op_TL(L, op) ==
    LET a == ops_all(op.operands, 1, "f32")
    IN  IF ~a.ok THEN Raise(L, a.v) ELSE [L EXCEPT !.text_state.leading = a.v[1]]

Op_Tf(L, op) ==
    LET font_name == ops_arg(op.operands, 1, "prim")
        size == ops_arg(op.operands, 2, "f32")
    IN  IF ~font_name.ok THEN Raise(L, font_name.v)
        ELSE IF ~size.ok THEN Raise(L, size.v)
        ELSE LET name == as_name(font_name.v)
             IN  IF ~name.ok THEN Fail(L, name.v)
                 ELSE IF name.v \notin DOMAIN Resources.fonts THEN Fail(L, "NoneError")
                 ELSE SetFont(L, Resources.fonts[name.v], size.v)

TextModes == <<"Fill", "Stroke", "FillThenStroke", "Invisible", "FillAndClip", "StrokeAndClip">>

Op_Tr_wraps(L, op) ==
    LET a == ops_all(op.operands, 1, "i32")
    IN  IF ~a.ok THEN Raise(L, a.v)
        ELSE [L EXCEPT !.text_state.mode = TextModes[(a.v[1] % 6) + 1]]

Op_Tr(L, op) ==
    LET a == ops_all(op.operands, 1, "i32")
    IN  IF ~a.ok THEN Raise(L, a.v)
        ELSE IF a.v[1] \in 0..5
        THEN [L EXCEPT !.text_state.mode = TextModes[a.v[1] + 1]]
        ELSE Fail(L, "Invalid text render mode")

Op_Ts(L, op) ==
    LET a == ops_all(op.operands, 1, "f32")
    IN  IF ~a.ok THEN Raise(L, a.v) ELSE [L EXCEPT !.text_state.rise = a.v[1]]

Op_Td(L, op) ==
    LET a == ops_p(op.operands, 1)
    IN  IF ~a.ok THEN Raise(L, a.v)
        ELSE [L EXCEPT !.text_state = translate(@, a.v[1])]

Op_TD(L, op) ==
    LET a == ops_p(op.operands, 1)
    IN  IF ~a.ok THEN Raise(L, a.v)
        ELSE [L EXCEPT !.text_state =
                  translate([@ EXCEPT !.leading = RNeg(a.v[1][2])], a.v[1])]

Op_Tm(L, op) ==
    LET a == ops_all(op.operands, 6, "f32")
    IN  IF ~a.ok THEN Raise(L, a.v)
        ELSE [L EXCEPT !.text_state =
                  set_matrix(@, row_major(a.v[1], a.v[3], a.v[5], a.v[2], a.v[4], a.v[6]))]

Op_Tstar(L, op) == [L EXCEPT !.text_state = next_line(@)]

\* add_item: an entry only for a bbox that is not empty.
add_item_front(items, bbox, op) ==
    IF bbox.some THEN <<<<bbox.v, op>>>> \o items ELSE items

add_item(items, bbox, op) ==
    IF bbox.some THEN Append(items, <<bbox.v, op>>) ELSE items

\* ------------------------------------------------------------------------
\* ItemMap: the queries on the index render_page returns
\* ------------------------------------------------------------------------
\* RectF::contains_point: the bounds belong to the rect.
contains_point(r, p) ==
    /\ RLe(r.origin[1], p[1]) /\ RLe(p[1], r.lower_right[1])
    /\ RLe(r.origin[2], p[2]) /\ RLe(p[2], r.lower_right[2])

\* Itertools::format: the strings with sep between them.
RECURSIVE format(_, _)
format(strs, sep) ==
    IF strs = <<>> THEN ""
    ELSE IF Len(strs) = 1 THEN strs[1]
    ELSE strs[1] \o sep \o format(Tail(strs), sep)

\* Display of a Primitive and of an Operation.
RECURSIVE DisplayPrimitive(_)
DisplayPrimitive(p) ==
    CASE p.kind = "Integer" -> ToString(p.int)
      [] p.kind = "Number" -> ToString(p.num[1]) \o "/" \o ToString(p.num[2])
      [] p.kind = "Name" -> "/" \o p.name
      [] p.kind = "String" ->
             "(" \o format([i \in 1..Len(p.bytes) |-> ToString(p.bytes[i])], " ") \o ")"
      [] p.kind = "Array" ->
             "[" \o format([i \in 1..Len(p.array) |-> DisplayPrimitive(p.array[i])], ", ")
                 \o "]"

DisplayOperation(op) ==
    op.operator \o " : "
        \o format([i \in 1..Len(op.operands) |-> DisplayPrimitive(op.operands[i])], ", ")

\* The operations of the entries whose rect contains p, in the order of the
\* Vec, as strings.
ItemsAt(items, p) ==
    LET hit(it) == contains_point(it[1], p)
        hits == SelectSeq(items, hit)
    IN  [i \in 1..Len(hits) |-> DisplayOperation(hits[i][2])]

ItemMap_print(items, p) == ItemsAt(items, p)

OptionOfFirst(strs) == IF strs # <<>> THEN Some(strs[1]) ELSE None

OptionOfJoined(strs) == IF strs # <<>> THEN Some(format(strs, ", ")) ELSE None

ItemMap_get_string(items, p) == OptionOfJoined(ItemsAt(items, p))

\* The body shared by "Tj", "'" and "\"": draw the string with the text
\* state ts and record the operator under the bbox drawn.
Shown(L, run, op) ==
    [L EXCEPT !.text_state = run.ts,
              !.scene = run.scene,
              !.items = add_item(@, run.bbox, op)]

ShowText(L, ts, text, op) ==
    Shown(L, draw_text(ts, L.scene, L.fonts, L.graphics_state.transform,
                       get_text_style(L.graphics_state, ts.mode),
                       L.graphics_state.clip_path, text),
          op)

Op_Tj(L, op) ==
    LET a == ops_all(op.operands, 1, "bytes")
    IN  IF ~a.ok THEN Raise(L, a.v) ELSE ShowText(L, L.text_state, a.v[1], op)

\* "'"
Op_quote(L, op) ==
    LET a == ops_all(op.operands, 1, "bytes")
    IN  IF ~a.ok THEN Raise(L, a.v)
        ELSE ShowText(L, next_line(L.text_state), a.v[1], op)

\* "\""
Op_dquote(L, op) ==
    LET ws == ops_all(op.operands, 2, "f32")
        text == ops_arg(op.operands, 3, "bytes")
    IN  IF ~ws.ok THEN Raise(L, ws.v)
        ELSE IF ~text.ok THEN Raise(L, text.v)
        ELSE ShowText(L, next_line([L.text_state EXCEPT !.word_space = ws.v[1],
                                                        !.char_space = ws.v[2]]),
                      text.v, op)

Joined_last(bb, r2) == TextRun(r2.ts, r2.scene, IF r2.bbox.some THEN r2.bbox ELSE bb)

\* bb.add_bbox(r2) after a string element of "TJ".
Joined(bb, r2) == TextRun(r2.ts, r2.scene, BBoxAddBBox(bb, r2.bbox))

\* The loop of "TJ" over the array from element i on; run carries the text
\* state, the scene and the bbox bb; a non-numeric element panics with what
\* was drawn before it left in place.
RECURSIVE TJ_from(_, _, _, _, _)
TJ_from(L, run, style, array, i) ==
    IF i > Len(array) THEN [run |-> run, panicked |-> FALSE]
    ELSE IF array[i].kind = "String"
    THEN TJ_from(L, Joined(run.bbox,
                           draw_text(run.ts, run.scene, L.fonts, L.graphics_state.transform,
                                     style, L.graphics_state.clip_path, array[i].bytes)),
                 style, array, i + 1)
    ELSE LET offset == as_number(array[i])
         IN  IF ~offset.ok THEN [run |-> run, panicked |-> TRUE]
             ELSE TJ_from(L, TextRun(advance(run.ts, RMul(<<-1, 1000>>, offset.v)),
                                     run.scene, run.bbox),
                          style, array, i + 1)

ShownTJ(L, r, op) ==
    IF r.panicked
    THEN Panic([L EXCEPT !.text_state = r.run.ts, !.scene = r.run.scene],
               "wrong argument to TJ")
    ELSE Shown(L, r.run, op)

Op_TJ(L, op) ==
    LET a == ops_all(op.operands, 1, "array")
    IN  IF ~a.ok THEN Raise(L, a.v)
        ELSE ShownTJ(L, TJ_from(L, TextRun(L.text_state, L.scene, BBoxEmpty),
                                get_text_style(L.graphics_state, L.text_state.mode),
                                a.v[1], 1),
                     op)

\* The samples of an image as ColorU, by bytes per pixel n in {1, 3, 4}.
ImagePixels(raw_data, n) ==
    CASE n = 1 -> [i \in 1..Len(raw_data) |-> ColorU(raw_data[i], raw_data[i], raw_data[i], 255)]
      [] n = 3 -> [i \in 1..((Len(raw_data) + 2) \div 3) |->
                     ColorU(raw_data[3 * i - 2], raw_data[3 * i - 1], raw_data[3 * i], 255)]
      [] n = 4 -> [i \in 1..((Len(raw_data) + 3) \div 4) |->
                     ColorU(raw_data[4 * i - 3], raw_data[4 * i - 2], raw_data[4 * i - 1],
                            raw_data[4 * i])]

\* The pattern of an image: its pixels and the transform applied to it.
ImagePattern(L, image) ==
    [size |-> <<image.width, image.height>>,
     pixels |-> ImagePixels(image.data, Len(image.data) \div (image.width * image.height)),
     transform |->
        TMul(TMul(L.graphics_state.transform,
                  from_scale(Vector2F(<<1, image.width>>, <<-1, image.height>>))),
             from_translation(Vector2F(F(0), RNeg(F(image.height)))))]

UnitSquare == take(rect(PathBuilderNew, RectF(VZero, Vector2F(F(1), F(1)))))[1]

\* pushed is what push_paint returned for the pattern paint.
FillImage(L, pushed, clip) ==
    [L EXCEPT !.scene =
        draw(pushed[1], transformed(UnitSquare, L.graphics_state.transform),
             PathStyle(DrawMode("Fill", <<pushed[2]>>), "Winding"), clip)]

\* The image arm of "Do": the pattern paint is interned and the unit square,
\* transformed by the current transform, is filled with it.
DrawImage(L, image, clip) ==
    FillImage(L, push_paint(L.scene, PaintPattern(ImagePattern(L, image))), clip)

\* "Do": the operand is extracted by ops!; the rest runs in a closure whose
\* Result is dropped, so an error inside it leaves the loop running.
Op_Do(L, op) ==
    LET a == ops_all(op.operands, 1, "prim")
    IN  IF ~a.ok THEN Raise(L, a.v)
        ELSE LET name == as_name(a.v[1])
             IN  IF ~name.ok THEN L
                 ELSE IF name.v \notin DOMAIN Resources.xobjects THEN Panic(L, "unwrap")
                 ELSE LET xobject == FileGet(Resources.xobjects[name.v])
                      IN  IF ~xobject.ok THEN L
                          ELSE IF xobject.v.kind # "Image" THEN L
                          ELSE IF xobject.v.width * xobject.v.height = 0
                          THEN Panic(L, "attempt to divide by zero")
                          ELSE IF Len(xobject.v.data) \div (xobject.v.width * xobject.v.height)
                                    \notin {1, 3, 4}
                          THEN Panic(L, "unimplemented bytes/pixel")
                          ELSE IF Len(xobject.v.data) %
                                    (Len(xobject.v.data) \div (xobject.v.width * xobject.v.height)) # 0
                          THEN Panic(L, "index out of bounds")
                          ELSE DrawImage(L, xobject.v, None)

\* The dispatch `match s` of the loop body.
Exec(L, op) ==
    LET s == op.operator
    IN  CASE s = "m" -> Op_m(L, op)
          [] s = "l" -> Op_l(L, op)
          [] s = "c" -> Op_c(L, op)
          [] s = "v" -> Op_v(L, op)
          [] s = "y" -> Op_y(L, op)
          [] s = "h" -> Op_h(L, op)
          [] s = "re" -> Op_re(L, op)
          [] s = "S" -> Op_S(L, op)
          [] s = "s" -> Op_s(L, op)
          [] s \in {"f", "F", "f*"} -> Op_f(L, op)
          [] s \in {"B", "B*"} -> Op_B(L, op)
          [] s \in {"b", "b*"} -> Op_b(L, op)
          [] s = "n" -> Op_n(L, op)
          [] s \in {"W", "W*"} -> Op_W(L, op)
          [] s = "q" -> Op_q(L, op)
          [] s = "Q" -> Op_Q(L, op)
          [] s = "cm" -> Op_cm(L, op)
          [] s = "w" -> Op_w(L, op)
          [] s = "gs" -> Op_gs(L, op)
          [] s \in {"SC", "SCN", "RG"} -> Op_SC(L, op)
          [] s \in {"sc", "scn", "rg"} -> Op_sc(L, op)
          [] s = "G" -> Op_G(L, op)
          [] s = "g" -> Op_g(L, op)
          [] s = "K" -> Op_K(L, op)
          [] s = "k" -> Op_k(L, op)
          [] s = "cs" -> Op_cs(L, op)
          [] s = "CS" -> Op_CS(L, op)
          [] s = "BT" -> Op_BT(L, op)
          [] s = "Tc" -> Op_Tc(L, op)
          [] s = "Tw" -> Op_Tw(L, op)
          [] s = "Tz" -> Op_Tz(L, op)
          [] s = "TL" -> Op_TL(L, op)
          [] s = "Tf" -> Op_Tf(L, op)
          [] s = "Tr" -> Op_Tr(L, op)
          [] s = "Ts" -> Op_Ts(L, op)
          [] s = "Td" -> Op_Td(L, op)
          [] s = "TD" -> Op_TD(L, op)
          [] s = "Tm" -> Op_Tm(L, op)
          [] s = "T*" -> Op_Tstar(L, op)
          [] s = "Tj" -> Op_Tj(L, op)
          [] s = "'" -> Op_quote(L, op)
          [] s = "\"" -> Op_dquote(L, op)
          [] s = "TJ" -> Op_TJ(L, op)
          [] s = "Do" -> Op_Do(L, op)
          [] OTHER -> Op_nop(L, op)

\* ------------------------------------------------------------------------
\* The state of a Cache and of one call of render_page_n
\* ------------------------------------------------------------------------
VARIABLES
    pc,              \* "idle", "loop", "returned" or "panicked"
    fonts,           \* Cache::fonts: font name -> FontEntry
    has_contents,    \* page.contents is Some
    len,             \* contents.operations.len()
    num_ops,         \* the argument num_ops
    contents,        \* the operations the loop has taken from the stream so far
    graphics_state,
    text_state,
    stack,
    path_builder,
    scene,
    items,
    result,          \* what the call returned: None while it runs
    trace,           \* trace[k + 1]: the graphics and text state after k operators
    page_no,         \* which page of the document the call renders
    query,           \* the last query put to the returned ItemMap, if any
    bboxes           \* two BBox accumulators, the rects each was given, the last call

vars == <<pc, fonts, has_contents, len, num_ops, contents, graphics_state, text_state,
          stack, path_builder, scene, items, result, trace, page_no, query, bboxes>>

\* usize::max_value(), the limit render_page passes: it stands for a limit no
\* stream reaches.
UsizeMax == 2147483647

MinIgnoresLimit(a, b) == b

\* What `.take(num_ops)` yields of an iterator of length len: Min(num_ops, len).
Min(a, b) == IF a <= b THEN a ELSE b

Locals ==
    [graphics_state |-> graphics_state, text_state |-> text_state, stack |-> stack,
     path_builder |-> path_builder, scene |-> scene, items |-> items, fonts |-> fonts,
     outcome |-> "continue", error |-> ""]

\* Result<(Scene, ItemMap)>
ReturnOk(L) == [kind |-> "Ok", error |-> "", value |-> Some(<<L.scene, L.items>>)]

ReturnErrWithScene(L) == [kind |-> "Err", error |-> L.error, value |-> Some(<<L.scene, L.items>>)]

ReturnErr(L) == [kind |-> "Err", error |-> L.error, value |-> None]

\* The pre-pass: every font of the resources, then the fonts of the graphics
\* state dictionaries, through load_font.  (The fonts of the page have
\* distinct names, so the order of the two HashMap iterations does not show.)
RECURSIVE LoadFonts(_, _)
LoadFonts(cache, pdf_fonts) ==
    IF pdf_fonts = {} THEN Ok(cache)
    ELSE LET f == CHOOSE x \in pdf_fonts : TRUE
             c == load_font(cache, f)
         IN  IF ~c.ok THEN c ELSE LoadFonts(c.v, pdf_fonts \ {f})

PageFonts ==
    {Resources.fonts[n] : n \in DOMAIN Resources.fonts}
    \cup {Resources.graphics_states[n].font.v[1] :
            n \in {x \in DOMAIN Resources.graphics_states :
                        Resources.graphics_states[x].font.some}}

\* The second page of the document names its fonts as the first does, but
\* its font dictionaries carry other font programs under these names: the
\* font named "Simple" is CID-keyed there, and "NoData" has standard data.
OtherPageFonts ==
    {PdfFont("Simple", TRUE, Some(Encoding("IdentityH", MapEmpty)), None, "embedded", CidFont),
     PdfFont("NoData", FALSE, None, None, "standard", LatinFont),
     FontCid}

FontsOfPage(n) ==
    IF n = 1 THEN PageFonts
    ELSE IF n = 2 THEN OtherPageFonts
    ELSE IF n = LongTablePage THEN {LongTableFont}
    ELSE {BuildCases[n - 2]}

Setup_no_background(cache) ==
    LET rect_size == Vector2F(RSub(MediaBox.right, MediaBox.left),
                              RSub(MediaBox.top, MediaBox.bottom))
        scale == Vector2F(<<1, 2>>, <<1, 2>>)
        view == RectF(VZero, Vector2F(RMul(rect_size[1], scale[1]), RMul(rect_size[2], scale[2])))
        s0 == [SceneNew EXCEPT !.view_box = Some(view)]
        black == push_paint(s0, Black)
        white == push_paint(black[1], White)
        style == PathStyle(DrawMode("FillThenStroke",
                                    <<white[2], black[2], StrokeStyle("Round", <<"Round">>, <<1, 4>>)>>),
                           "Winding")
        page == take(rect(PathBuilderNew, view))
        s1 == draw(white[1], page[1], style, None)
        root_transformation ==
            TMul(from_scale(scale),
                 row_major(F(1), F(0), RNeg(MediaBox.left), F(0), F(-1), MediaBox.top))
    IN  [graphics_state |->
            [transform |-> root_transformation, stroke_width |-> F(1),
             fill_paint |-> black[2], stroke_paint |-> black[2], clip_path |-> None,
             fill_color_space |-> DeviceRGB, stroke_color_space |-> DeviceRGB],
         text_state |-> TextStateNew,
         stack |-> <<>>,
         path_builder |-> move_to(page[2], VZero),
         scene |-> white[1],
         items |-> <<>>,
         fonts |-> cache,
         outcome |-> "continue",
         error |-> ""]

\* The locals as render_page_n sets them up before the loop (lines 551-611).
Setup(cache) ==
    LET rect_size == Vector2F(RSub(MediaBox.right, MediaBox.left),
                              RSub(MediaBox.top, MediaBox.bottom))
        scale == Vector2F(<<1, 2>>, <<1, 2>>)
        view == RectF(VZero, Vector2F(RMul(rect_size[1], scale[1]), RMul(rect_size[2], scale[2])))
        s0 == [SceneNew EXCEPT !.view_box = Some(view)]
        black == push_paint(s0, Black)
        white == push_paint(black[1], White)
        style == PathStyle(DrawMode("FillThenStroke",
                                    <<white[2], black[2], StrokeStyle("Round", <<"Round">>, <<1, 4>>)>>),
                           "Winding")
        page == take(rect(PathBuilderNew, view))
        s1 == draw(white[1], page[1], style, None)
        root_transformation ==
            TMul(from_scale(scale),
                 row_major(F(1), F(0), RNeg(MediaBox.left), F(0), F(-1), MediaBox.top))
    IN  [graphics_state |->
            [transform |-> root_transformation, stroke_width |-> F(1),
             fill_paint |-> black[2], stroke_paint |-> black[2], clip_path |-> None,
             fill_color_space |-> DeviceRGB, stroke_color_space |-> DeviceRGB],
         text_state |-> TextStateNew,
         stack |-> <<>>,
         path_builder |-> move_to(page[2], VZero),
         scene |-> s1,
         items |-> <<>>,
         fonts |-> cache,
         outcome |-> "continue",
         error |-> ""]

Snapshot(L) == [graphics_state |-> L.graphics_state, text_state |-> L.text_state]

Assign(L) ==
    /\ graphics_state' = L.graphics_state
    /\ text_state' = L.text_state
    /\ stack' = L.stack
    /\ path_builder' = L.path_builder
    /\ scene' = L.scene
    /\ items' = L.items
    /\ fonts' = L.fonts

\* How the call goes on after a handler (or the setup) left L.
Continue(L) ==
    /\ pc' = CASE L.outcome = "continue" -> "loop"
               [] L.outcome = "err" -> "returned"
               [] L.outcome = "panic" -> "panicked"
    /\ result' = IF L.outcome = "err" THEN Some(ReturnErr(L)) ELSE None

\* The locals when the loop is entered, or how the call ended before it:
\* loaded is what the font pre-pass left, L0 the locals set up.
Entered(loaded, L0, present) ==
    IF ~loaded.ok THEN Panic(L0, "can't decode font data")
    ELSE IF ~present THEN Fail(L0, "NoneError")
    ELSE L0

CacheAfter(cache, loaded) == IF loaded.ok THEN loaded.v ELSE cache

Prepass(cache, pdf_fonts, present) ==
    Entered(LoadFonts(cache, pdf_fonts),
            Setup(CacheAfter(cache, LoadFonts(cache, pdf_fonts))), present)

Enter(L) ==
    /\ Assign(L)
    /\ Continue(L)
    /\ trace' = <<Snapshot(L)>>

\* render_page_n up to the loop (lines 551-613).
Begin ==
    /\ pc = "idle"
    /\ Enter(Prepass(fonts, FontsOfPage(page_no), has_contents))
    /\ UNCHANGED <<has_contents, len, num_ops, contents, page_no, query, bboxes>>

\* One turn of `for op in contents.operations.iter().take(num_ops)`: L is
\* what the arm of op left.
Step(op, L) ==
    /\ pc = "loop"
    /\ Len(contents) < Min(num_ops, len)
    /\ contents' = Append(contents, op)
    /\ Assign(L)
    /\ Continue(L)
    /\ trace' = IF L.outcome = "continue" THEN Append(trace, Snapshot(L)) ELSE trace
    /\ UNCHANGED <<has_contents, len, num_ops, page_no, query, bboxes>>

\* The loop is over: Ok((scene, ItemMap(items))).
Return ==
    /\ pc = "loop"
    /\ Len(contents) >= Min(num_ops, len)
    /\ pc' = "returned"
    /\ result' = Some(ReturnOk(Locals))
    /\ UNCHANGED <<fonts, has_contents, len, num_ops, contents, graphics_state, text_state,
                   stack, path_builder, scene, items, trace, page_no, query, bboxes>>

\* The caller puts a query to the ItemMap of an Ok result: both take &self.
ReturnedItems == result.v.value.v[2]

Answer(fn, p, ret, out) == [fn |-> fn, p |-> p, ret |-> ret, out |-> out]

Asked(answer) ==
    /\ pc = "returned"
    /\ result.some
    /\ result.v.kind = "Ok"
    /\ query' = Some(answer)
    /\ UNCHANGED <<pc, fonts, has_contents, len, num_ops, contents, graphics_state,
                   text_state, stack, path_builder, scene, items, result, trace, page_no,
                   bboxes>>

Query_get_string(P) ==
    \E p \in P : Asked(Answer("get_string", p, ItemMap_get_string(ReturnedItems, p), <<>>))

Query_print(P) ==
    \E p \in P : Asked(Answer("print", p, None, ItemMap_print(ReturnedItems, p)))

\* The caller renders a page again with the same Cache: the cache stays, the
\* locals of the call that returned are gone.
Again(max_ops) ==
    /\ pc = "returned"
    /\ pc' = "idle"
    /\ page_no' \in {1, 2}
    /\ has_contents' \in BOOLEAN
    /\ len' \in 0..max_ops
    /\ ~has_contents' => len' = 0
    /\ contents' = <<>>
    /\ graphics_state' = Setup(MapEmpty).graphics_state
    /\ text_state' = TextStateNew
    /\ stack' = <<>>
    /\ path_builder' = PathBuilderNew
    /\ scene' = SceneNew
    /\ items' = <<>>
    /\ result' = None
    /\ trace' = <<>>
    /\ query' = None
    /\ UNCHANGED <<fonts, num_ops, bboxes>>

\* ------------------------------------------------------------------------
\* The loop body by arm of `match s`: A is the set of operations the stream
\* may hold.
\* ------------------------------------------------------------------------
Arm_m(A) == \E op \in A : op.operator \in {"m"} /\ Step(op, Op_m(Locals, op))

Arm_l(A) == \E op \in A : op.operator \in {"l"} /\ Step(op, Op_l(Locals, op))

Arm_c(A) == \E op \in A : op.operator \in {"c"} /\ Step(op, Op_c(Locals, op))

Arm_v(A) == \E op \in A : op.operator \in {"v"} /\ Step(op, Op_v(Locals, op))

Arm_y(A) == \E op \in A : op.operator \in {"y"} /\ Step(op, Op_y(Locals, op))

Arm_h(A) == \E op \in A : op.operator \in {"h"} /\ Step(op, Op_h(Locals, op))

Arm_re(A) == \E op \in A : op.operator \in {"re"} /\ Step(op, Op_re(Locals, op))

Arm_S(A) == \E op \in A : op.operator \in {"S"} /\ Step(op, Op_S(Locals, op))

Arm_s(A) == \E op \in A : op.operator \in {"s"} /\ Step(op, Op_s(Locals, op))

Arm_f(A) == \E op \in A : op.operator \in {"f", "F", "f*"} /\ Step(op, Op_f(Locals, op))

Arm_B(A) == \E op \in A : op.operator \in {"B", "B*"} /\ Step(op, Op_B(Locals, op))

Arm_b(A) == \E op \in A : op.operator \in {"b", "b*"} /\ Step(op, Op_b(Locals, op))

Arm_n(A) == \E op \in A : op.operator \in {"n"} /\ Step(op, Op_n(Locals, op))

Arm_W(A) == \E op \in A : op.operator \in {"W", "W*"} /\ Step(op, Op_W(Locals, op))

Arm_q(A) == \E op \in A : op.operator \in {"q"} /\ Step(op, Op_q(Locals, op))

Arm_Q(A) == \E op \in A : op.operator \in {"Q"} /\ Step(op, Op_Q(Locals, op))

Arm_cm(A) == \E op \in A : op.operator \in {"cm"} /\ Step(op, Op_cm(Locals, op))

Arm_w(A) == \E op \in A : op.operator \in {"w"} /\ Step(op, Op_w(Locals, op))

Arm_nop(A) == \E op \in A : op.operator \in {"J", "j", "M", "d", "ET"} /\ Step(op, Op_nop(Locals, op))

Arm_gs(A) == \E op \in A : op.operator \in {"gs"} /\ Step(op, Op_gs(Locals, op))

Arm_SC(A) == \E op \in A : op.operator \in {"SC", "SCN", "RG"} /\ Step(op, Op_SC(Locals, op))

Arm_g(A) == \E op \in A : op.operator \in {"g"} /\ Step(op, Op_g(Locals, op))

Arm_K(A) == \E op \in A : op.operator \in {"K"} /\ Step(op, Op_K(Locals, op))

Arm_CS(A) == \E op \in A : op.operator \in {"CS"} /\ Step(op, Op_CS(Locals, op))

Arm_BT(A) == \E op \in A : op.operator \in {"BT"} /\ Step(op, Op_BT(Locals, op))

Arm_Tc(A) == \E op \in A : op.operator \in {"Tc"} /\ Step(op, Op_Tc(Locals, op))

Arm_Tw(A) == \E op \in A : op.operator \in {"Tw"} /\ Step(op, Op_Tw(Locals, op))

Arm_TL(A) == \E op \in A : op.operator \in {"TL"} /\ Step(op, Op_TL(Locals, op))

Arm_Tz(A) == \E op \in A : op.operator \in {"Tz"} /\ Step(op, Op_Tz(Locals, op))

Arm_Tf(A) == \E op \in A : op.operator \in {"Tf"} /\ Step(op, Op_Tf(Locals, op))

Arm_Tr(A) == \E op \in A : op.operator \in {"Tr"} /\ Step(op, Op_Tr(Locals, op))

Arm_Td(A) == \E op \in A : op.operator \in {"Td"} /\ Step(op, Op_Td(Locals, op))

Arm_TD(A) == \E op \in A : op.operator \in {"TD"} /\ Step(op, Op_TD(Locals, op))

Arm_Tm(A) == \E op \in A : op.operator \in {"Tm"} /\ Step(op, Op_Tm(Locals, op))

Arm_Tstar(A) == \E op \in A : op.operator \in {"T*"} /\ Step(op, Op_Tstar(Locals, op))

Arm_Tj(A) == \E op \in A : op.operator \in {"Tj"} /\ Step(op, Op_Tj(Locals, op))

Arm_quote(A) == \E op \in A : op.operator \in {"'"} /\ Step(op, Op_quote(Locals, op))

Arm_dquote(A) == \E op \in A : op.operator \in {"\""} /\ Step(op, Op_dquote(Locals, op))

Arm_TJ(A) == \E op \in A : op.operator \in {"TJ"} /\ Step(op, Op_TJ(Locals, op))

Arm_Do(A) == \E op \in A : op.operator \in {"Do"} /\ Step(op, Op_Do(Locals, op))

\* ------------------------------------------------------------------------
\* render_page_n as a function of the content stream
\* ------------------------------------------------------------------------
\* The loop from the i-th operation on: it ends with the stream or with the
\* first arm that returns or panics.
RECURSIVE RunFrom(_, _, _)
RunFrom(L, stream, i) ==
    IF i > Len(stream) \/ L.outcome # "continue" THEN L
    ELSE RunFrom(Exec(L, stream[i]), stream, i + 1)

\* contents.operations.iter().take(n)
Take(stream, n) == SubSeq(stream, 1, Min(n, Len(stream)))

Finish(L) ==
    CASE L.outcome = "continue" -> ReturnOk(L)
      [] L.outcome = "err" -> ReturnErr(L)
      [] L.outcome = "panic" -> [kind |-> "Panic", error |-> L.error, value |-> None]

render_page_n(cache, stream, n) ==
    Finish(RunFrom(Prepass(cache, PageFonts, TRUE), Take(stream, n), 1))

render_page(cache, stream) == render_page_n(cache, stream, UsizeMax)

\* ------------------------------------------------------------------------
\* The streams explored
\* ------------------------------------------------------------------------
I(n) == PInteger(n)

Op0(s) == Operation(s, <<>>)

Ints(s, ns) == Operation(s, [i \in 1..Len(ns) |-> PInteger(ns[i])])

\* The bytes of "A" and of "A " in a simple font.
StrA == PString(<<65>>)

StrASpace == PString(<<65, 32>>)

InitOn(max_ops, limits, pages) ==
    /\ pc = "idle"
    /\ fonts = MapEmpty
    /\ has_contents \in BOOLEAN
    /\ len \in 0..max_ops
    /\ ~has_contents => len = 0
    /\ num_ops \in limits
    /\ contents = <<>>
    /\ graphics_state = Setup(MapEmpty).graphics_state
    /\ text_state = TextStateNew
    /\ stack = <<>>
    /\ path_builder = PathBuilderNew
    /\ scene = SceneNew
    /\ items = <<>>
    /\ result = None
    /\ trace = <<>>
    /\ page_no \in pages
    /\ query = None
    /\ bboxes = BBoxes(BBoxEmpty, BBoxEmpty, {}, {}, "empty")

InitWith(max_ops, limits) == InitOn(max_ops, limits, {1})

\* Save/restore and the operators that set the graphics and the text state.
StateOps ==
    {Op0("q"), Op0("Q"), Ints("w", <<5>>), Op0("w"), Ints("cm", <<2, 0, 0, 1, 1, 0>>),
     Ints("g", <<1>>), Ints("RG", <<1, 0, 0>>), Op0("W"),
     Operation("CS", <<PName("CS0")>>), Ints("Tc", <<1>>),
     Operation("Tf", <<PName("F1"), I(12)>>), Ints("Td", <<1, 0>>), Ints("Tr", <<1>>),
     Op0("S")}

MaxOpsState == 4

InitState == InitWith(MaxOpsState, {UsizeMax})

NextState ==
    \/ Begin
    \/ Return
    \/ Arm_q(StateOps)
    \/ Arm_Q(StateOps)
    \/ Arm_w(StateOps)
    \/ Arm_cm(StateOps)
    \/ Arm_g(StateOps)
    \/ Arm_SC(StateOps)
    \/ Arm_W(StateOps)
    \/ Arm_CS(StateOps)
    \/ Arm_Tc(StateOps)
    \/ Arm_Tf(StateOps)
    \/ Arm_Td(StateOps)
    \/ Arm_Tr(StateOps)
    \/ Arm_S(StateOps)

SpecState == InitState /\ [][NextState]_vars

\* Path construction, painting, clipping and images.
PaintOps ==
    {Ints("m", <<0, 0>>), Ints("l", <<1, 0>>), Op0("S"), Op0("f*"), Op0("B"), Op0("B*"),
     Op0("b"), Op0("b*"), Op0("n"), Op0("W"), Op0("W*"),
     Operation("Do", <<PName("Im1")>>), Ints("g", <<1>>), Op0("q"), Op0("Q")}

MaxOpsPaint == 4

InitPaint == InitWith(MaxOpsPaint, {UsizeMax})

NextPaint ==
    \/ Begin
    \/ Return
    \/ Arm_m(PaintOps)
    \/ Arm_l(PaintOps)
    \/ Arm_S(PaintOps)
    \/ Arm_f(PaintOps)
    \/ Arm_B(PaintOps)
    \/ Arm_b(PaintOps)
    \/ Arm_n(PaintOps)
    \/ Arm_W(PaintOps)
    \/ Arm_Do(PaintOps)
    \/ Arm_g(PaintOps)
    \/ Arm_q(PaintOps)
    \/ Arm_Q(PaintOps)

SpecPaint == InitPaint /\ [][NextPaint]_vars

\* Operators whose operands are missing, of the wrong type or out of range,
\* among operators that draw.
FailOps ==
    {Ints("m", <<0, 0>>), Op0("m"), Ints("l", <<1, 0>>), Operation("l", <<I(1), PName("x")>>),
     Ints("re", <<0, 0, 1>>), Ints("cm", <<1, 0>>), Operation("w", <<PName("x")>>),
     Op0("S"), Ints("g", <<1>>),
     Operation("Do", <<PName("Im1")>>), Operation("Do", <<I(1)>>), Op0("Do"),
     Operation("Do", <<PName("Nowhere")>>),
     Ints("Tr", <<7>>), Op0("Tr"), Ints("RG", <<1, 0>>), Ints("Td", <<1>>),
     Operation("Tf", <<PName("F1"), I(12)>>), Operation("Tj", <<I(5)>>),
     Operation("TJ", <<PArray(<<StrA>>)>>), Operation("TJ", <<PArray(<<StrA, PName("x")>>)>>),
     Operation("gs", <<I(5)>>)}

MaxOpsFail == 4

InitFail == InitWith(MaxOpsFail, {UsizeMax})

NextFail ==
    \/ Begin
    \/ Return
    \/ Arm_m(FailOps)
    \/ Arm_l(FailOps)
    \/ Arm_re(FailOps)
    \/ Arm_cm(FailOps)
    \/ Arm_w(FailOps)
    \/ Arm_S(FailOps)
    \/ Arm_g(FailOps)
    \/ Arm_Do(FailOps)
    \/ Arm_Tr(FailOps)
    \/ Arm_SC(FailOps)
    \/ Arm_Td(FailOps)
    \/ Arm_Tf(FailOps)
    \/ Arm_Tj(FailOps)
    \/ Arm_TJ(FailOps)
    \/ Arm_gs(FailOps)

SpecFail == InitFail /\ [][NextFail]_vars

\* Streams cut short by the limit num_ops.
LimitOps ==
    {Ints("m", <<0, 0>>), Ints("l", <<1, 0>>), Ints("c", <<0, 0, 1, 1, 2, 0>>),
     Ints("v", <<1, 1, 2, 0>>), Ints("y", <<1, 1, 2, 0>>), Op0("h"),
     Ints("re", <<0, 0, 1, 1>>), Op0("s"), Op0("f"), Op0("W*"), Op0("BT"),
     Operation("Tf", <<PName("F1"), I(12)>>), Operation("Tj", <<StrA>>), Ints("J", <<1>>)}

MaxOpsLimit == 3

InitLimit == InitWith(MaxOpsLimit, (0..(MaxOpsLimit + 1)) \cup {UsizeMax})

NextLimit ==
    \/ Begin
    \/ Return
    \/ Arm_m(LimitOps)
    \/ Arm_l(LimitOps)
    \/ Arm_c(LimitOps)
    \/ Arm_v(LimitOps)
    \/ Arm_y(LimitOps)
    \/ Arm_h(LimitOps)
    \/ Arm_re(LimitOps)
    \/ Arm_s(LimitOps)
    \/ Arm_f(LimitOps)
    \/ Arm_W(LimitOps)
    \/ Arm_BT(LimitOps)
    \/ Arm_Tf(LimitOps)
    \/ Arm_Tj(LimitOps)
    \/ Arm_nop(LimitOps)

SpecLimit == InitLimit /\ [][NextLimit]_vars

\* Text objects: fonts, positioning and the text-showing operators.
TextOps ==
    {Op0("BT"), Op0("ET"), Op0("q"), Op0("Q"),
     Operation("Tf", <<PName("F1"), I(12)>>), Operation("Tf", <<PName("F3"), I(10)>>),
     Operation("Tj", <<StrA>>), Operation("'", <<StrASpace>>),
     Operation("\"", <<I(1), I(1), StrA>>),
     Operation("TJ", <<PArray(<<StrA, I(-100), StrA>>)>>),
     Ints("Td", <<1, 0>>), Op0("T*"), Ints("TL", <<2>>), Ints("Tw", <<1>>),
     Ints("Tm", <<1, 0, 0, 1, 1, 1>>), Operation("gs", <<PName("GS1")>>)}

MaxOpsText == 3

InitText == InitWith(MaxOpsText, {UsizeMax})

NextText ==
    \/ Begin
    \/ Return
    \/ Arm_BT(TextOps)
    \/ Arm_nop(TextOps)
    \/ Arm_q(TextOps)
    \/ Arm_Q(TextOps)
    \/ Arm_Tf(TextOps)
    \/ Arm_Tj(TextOps)
    \/ Arm_quote(TextOps)
    \/ Arm_dquote(TextOps)
    \/ Arm_TJ(TextOps)
    \/ Arm_Td(TextOps)
    \/ Arm_Tstar(TextOps)
    \/ Arm_TL(TextOps)
    \/ Arm_Tw(TextOps)
    \/ Arm_Tm(TextOps)
    \/ Arm_gs(TextOps)

SpecText == InitText /\ [][NextText]_vars

\* ------------------------------------------------------------------------
\* Properties of a call, stated over the operations taken so far (contents)
\* and the states they left (trace)
\* ------------------------------------------------------------------------
OpAt(k) == contents[k].operator

LastOp == contents[Len(contents)]

\* The number of operations among the a-th to the b-th with operator s.
Count(s, a, b) == Cardinality({k \in a..b : contents[k].operator = s})

\* The operations that ran to their end: all but one that failed.
Completed == IF trace = <<>> THEN 0 ELSE Len(trace) - 1

\* The Q at j restores what the q at i saved: between them q/Q are nested.
Matched(i, j) ==
    /\ i < j
    /\ OpAt(i) = "q"
    /\ OpAt(j) = "Q"
    /\ Count("q", i + 1, j - 1) = Count("Q", i + 1, j - 1)
    /\ \A k \in (i + 1)..(j - 1) : Count("Q", i + 1, k) <= Count("q", i + 1, k)

LastPath(L) == L.scene.paths[Len(L.scene.paths)]

\* The stream ran to its end and its last path is a stroke of user-space
\* width w.
StrokedWithWidth(L, w) ==
    /\ L.outcome = "continue"
    /\ Len(L.scene.paths) > 0
    /\ LastPath(L).stroke.some
    /\ LastPath(L).stroke.v.line_width = RMul(w, L.graphics_state.transform.m11)
    /\ L.graphics_state.stroke_width = w

\* q; w 5; Q; w 2; m 0 0; l 1 0; S
SaveRestoreIsolation ==
    <<Op0("q"), Ints("w", <<5>>), Op0("Q"), Ints("w", <<2>>),
      Ints("m", <<0, 0>>), Ints("l", <<1, 0>>), Op0("S")>>

\* C1: whenever a q and the Q matching it (q/Q properly nested in between,
\* any other operators interleaved) have both run, the graphics state and
\* the text state after that Q equal the ones just before that q; and the
\* page `q; w 5; Q; w 2; m 0 0; l 1 0; S` strokes its segment with width 2.
C1_SaveRestore ==
    /\ \A i, j \in 1..Len(contents) :
          (j <= Completed /\ Matched(i, j)) => trace[j + 1] = trace[i]
    /\ (pc = "loop" /\ contents = <<>>)
          => StrokedWithWidth(RunFrom(Locals, SaveRestoreIsolation, 1), F(2))

\* A q, changes to both the graphics and the text state, and the matching Q
\* that undid them.
C1_Witness ==
    \E i, j \in 1..Len(contents) :
        /\ j <= Completed
        /\ Matched(i, j)
        /\ trace[j].graphics_state # trace[i].graphics_state
        /\ trace[j].text_state # trace[i].text_state
        /\ trace[j + 1] = trace[i]
        /\ graphics_state = trace[i].graphics_state
        /\ text_state = trace[i].text_state

\* Every operation taken has run to its end.
AllCompleted == pc \in {"loop", "returned"} /\ Completed = Len(contents)

StackDepth ==
    AllCompleted
        => Len(stack) = Count("q", 1, Len(contents)) - Count("Q", 1, Len(contents))

StackStep ==
    /\ pc = "panicked" => FALSE
    /\ Len(stack') > Len(stack)
          => Len(stack') = Len(stack) + 1 /\ contents' # contents /\ LastOp' .operator = "q"
    /\ Len(stack') < Len(stack)
          => Len(stack') = Len(stack) - 1 /\ contents' # contents /\ LastOp' .operator = "Q"
    /\ (pc = "loop" /\ contents' # contents /\ LastOp' .operator = "Q" /\ stack = <<>>)
          => pc' = "panicked" /\ result' = None

\* C2: after every processed operator the depth of the save stack is the
\* number of q processed minus the number of Q processed (so after balanced
\* q/Q it is empty); only q pushes and only Q pops, one entry each; a Q on an
\* empty stack ends the render in a panic, after which no step is taken.
C2_StackDepth == []StackDepth /\ [][StackStep]_vars

\* A nested pair of saves was undone and the stack is empty again.
C2_Witness ==
    /\ AllCompleted
    /\ Len(contents) = 4
    /\ Count("q", 1, 4) = 2
    /\ Count("Q", 1, 4) = 2
    /\ stack = <<>>

\* A Q met an empty stack.
C2_WitnessUnderflow ==
    /\ pc = "panicked"
    /\ LastOp.operator = "Q"
    /\ Count("q", 1, Len(contents)) < Count("Q", 1, Len(contents))

InScene(id) == id \in 0..(Len(scene.paints) - 1)

PaintsInScene(gs) == InScene(gs.fill_paint) /\ InScene(gs.stroke_paint)

PaintIdsValid ==
    pc # "idle"
        => /\ PaintsInScene(graphics_state)
           /\ \A k \in 1..Len(stack) : PaintsInScene(stack[k][1])
           /\ contents = <<>>
                => /\ scene.paints[graphics_state.fill_paint + 1] = Black
                   /\ scene.paints[graphics_state.stroke_paint + 1] = Black

FillColourOps == {"sc", "scn", "rg", "g", "k"}

StrokeColourOps == {"SC", "SCN", "RG", "G", "K"}

\* The id is the one push_paint gives on the scene before the step for the
\* paint it names after it.
Interned(id) ==
    /\ id + 1 <= Len(scene'.paints)
    /\ id = PaintIdOf(scene, scene'.paints[id + 1])

PaintStep ==
    pc = "loop"
        => /\ SubSeq(scene'.paints, 1, Len(scene.paints)) = scene.paints
           /\ graphics_state'.fill_paint # graphics_state.fill_paint
                => \/ /\ LastOp' .operator \in FillColourOps
                      /\ Interned(graphics_state'.fill_paint)
                   \/ /\ LastOp' .operator = "Q"
                      /\ graphics_state' = stack[Len(stack)][1]
           /\ graphics_state'.stroke_paint # graphics_state.stroke_paint
                => \/ /\ LastOp' .operator \in StrokeColourOps
                      /\ Interned(graphics_state'.stroke_paint)
                   \/ /\ LastOp' .operator = "Q"
                      /\ graphics_state' = stack[Len(stack)][1]

\* C10: while a page is interpreted the fill and the stroke paint of the
\* graphics state, and of every saved stack entry, are ids of paints of the
\* scene of this call: at first the id of the interned black, later only an
\* id push_paint returned to a colour operator on this scene (or one restored
\* by Q); the paints of the scene are never removed or renumbered.
C10_PaintIds == []PaintIdsValid /\ [][PaintStep]_vars

\* A saved entry holds the black of the setup while the graphics state holds
\* a paint a colour operator interned later.
C10_Witness ==
    /\ pc = "loop"
    /\ Len(stack) = 1
    /\ stack[1][1].stroke_paint = 0
    /\ graphics_state.stroke_paint = 2
    /\ Len(scene.paints) = 3
    /\ LastOp.operator = "RG"

Failed == pc = "returned" /\ result.some /\ result.v.kind = "Err"

Signature(s) ==
    CASE s \in {"m", "l", "Td", "TD"} -> <<"n", "n">>
      [] s \in {"v", "y", "re"} -> <<"n", "n", "n", "n">>
      [] s \in {"c", "cm", "Tm"} -> <<"n", "n", "n", "n", "n", "n">>
      [] s \in {"w", "Tc", "Tw", "Tz", "TL", "Ts", "G", "g"} -> <<"n">>
      [] s \in {"RG", "rg"} -> <<"n", "n", "n">>
      [] s \in {"K", "k"} -> <<"n", "n", "n", "n">>
      [] s = "Tr" -> <<"i">>
      [] s = "Tf" -> <<"name", "n">>
      [] s \in {"gs", "Do", "cs", "CS"} -> <<"name">>
      [] s \in {"Tj", "'"} -> <<"s">>
      [] s = "\"" -> <<"n", "n", "s">>
      [] s = "TJ" -> <<"a">>
      [] OTHER -> <<>>

Fits(p, t) ==
    CASE t = "n" -> p.kind \in {"Integer", "Number"}
      [] t = "i" -> p.kind = "Integer"
      [] t = "name" -> p.kind = "Name"
      [] t = "s" -> p.kind = "String"
      [] t = "a" -> /\ p.kind = "Array"
                   /\ \A k \in 1..Len(p.array) :
                         p.array[k].kind \in {"String", "Integer", "Number"}

\* An operand is missing or has the wrong type.
Malformed(op) ==
    \/ Len(op.operands) < Len(Signature(op.operator))
    \/ \E k \in 1..Len(Signature(op.operator)) :
          k <= Len(op.operands) /\ ~Fits(op.operands[k], Signature(op.operator)[k])

\* C4: an operator with a missing or wrongly typed operand makes the render
\* return an error to the caller: no panic, and no going on with the
\* operators after it.
C4_MalformedOperandFails ==
    (pc # "idle" /\ contents # <<>> /\ Malformed(LastOp)) => Failed

\* The paths the step pushed to the scene.
NewPaths == SubSeq(scene'.paths, Len(scene.paths) + 1, Len(scene'.paths))

DrawingOps ==
    {"S", "s", "f", "F", "f*", "B", "B*", "b", "b*", "Tj", "'", "\"", "TJ", "Do"}

\* C5: once the graphics state holds a clip path, every path a drawing
\* operator (path painting, text showing, Do) pushes to the scene carries the
\* clip id the graphics state holds at that draw.
C5_DrawsCarryClip ==
    [][(pc = "loop" /\ graphics_state.clip_path.some /\ contents' # contents
          /\ LastOp' .operator \in DrawingOps)
        => \A k \in 1..Len(NewPaths) : NewPaths[k].clip_path = graphics_state.clip_path]_vars

\* W or W* ran: the path of the builder, transformed, is pushed as a clip
\* path with the rule of the operator and its id is the new clip.
ClipInstalled ==
    /\ LastOp' .operator \in {"W", "W*"}
    /\ scene'.clip_paths =
          Append(scene.clip_paths,
                 ClipPath(transformed(path_builder.outline, graphics_state.transform),
                          IF LastOp' .operator = "W*" THEN "EvenOdd" ELSE "Winding"))
    /\ graphics_state'.clip_path = Some(Len(scene'.clip_paths) - 1)

ClipRestored ==
    /\ LastOp' .operator = "Q"
    /\ stack # <<>>
    /\ graphics_state'.clip_path = stack[Len(stack)][1].clip_path

ClipStep ==
    pc = "loop"
        => /\ graphics_state'.clip_path # graphics_state.clip_path
                => ClipInstalled \/ ClipRestored
           /\ (contents' # contents /\ pc' = "loop" /\ LastOp' .operator \in {"W", "W*"})
                => ClipInstalled

\* m 0 0; l 10 0; l 10 10; l 0 10; h; W n; m 5 5; l 15 5; S
ClipPersistence ==
    <<Ints("m", <<0, 0>>), Ints("l", <<10, 0>>), Ints("l", <<10, 10>>), Ints("l", <<0, 10>>),
      Op0("h"), Op0("W"), Op0("n"), Ints("m", <<5, 5>>), Ints("l", <<15, 5>>), Op0("S")>>

\* The stream ran to its end, pushed one clip path, and its last path is a
\* stroke under that clip, which the graphics state still holds.
StrokedUnderFirstClip(L) ==
    /\ L.outcome = "continue"
    /\ Len(L.scene.clip_paths) = 1
    /\ L.scene.clip_paths[1].fill_rule = "Winding"
    /\ Len(L.scene.clip_paths[1].outline) > 0
    /\ LastPath(L).stroke.some
    /\ LastPath(L).clip_path = Some(0)
    /\ L.graphics_state.clip_path = Some(0)

\* C6: the clip path of the graphics state changes only when W or W* runs
\* (to the id of the clip path just pushed: the current path transformed by
\* the current transform, even-odd for W*, winding for W) or when Q restores
\* a saved state; n and the painting operators leave it alone, so the page
\* `m 0 0; l 10 0; l 10 10; l 0 10; h; W n; m 5 5; l 15 5; S` strokes under
\* the clip W made.
C6_ClipChanges ==
    /\ [][ClipStep]_vars
    /\ []((pc = "loop" /\ contents = <<>>)
            => StrokedUnderFirstClip(RunFrom(Locals, ClipPersistence, 1)))

\* A path was clipped by W*, n cleared the builder, and a later stroke still
\* carries that clip.
C6_Witness ==
    /\ pc = "loop"
    /\ Len(contents) = 4
    /\ OpAt(1) = "l"
    /\ OpAt(2) = "W*"
    /\ OpAt(3) = "n"
    /\ OpAt(4) = "S"
    /\ Len(scene.clip_paths) = 1
    /\ scene.clip_paths[1].fill_rule = "EvenOdd"
    /\ LastPath(Locals).clip_path = Some(0)
    /\ graphics_state.clip_path = Some(0)

\* The step pushed exactly a stroke painted with sp and a fill painted with
\* fp, the stroke first when stroke_first.
TwoPaths(stroke_first, sp, fp) ==
    /\ Len(NewPaths) = 2
    /\ NewPaths[IF stroke_first THEN 1 ELSE 2].stroke.some
    /\ NewPaths[IF stroke_first THEN 1 ELSE 2].paint = sp
    /\ ~NewPaths[IF stroke_first THEN 2 ELSE 1].stroke.some
    /\ NewPaths[IF stroke_first THEN 2 ELSE 1].paint = fp

\* C7: b and b* push the stroke outline painted with the stroke paint of the
\* graphics state and then the fill painted with its fill paint; B and B*
\* push the fill (fill paint) and then the stroke (stroke paint).
C7_PaintRoles ==
    [][(pc = "loop" /\ contents' # contents /\ pc' = "loop")
        => /\ LastOp' .operator \in {"b", "b*"}
                => TwoPaths(TRUE, graphics_state.stroke_paint, graphics_state.fill_paint)
           /\ LastOp' .operator \in {"B", "B*"}
                => TwoPaths(FALSE, graphics_state.stroke_paint, graphics_state.fill_paint)]_vars

\* The number of operations the limit lets through.
Limit == IF num_ops <= len THEN num_ops ELSE len

ReturnedOk == pc = "returned" /\ result.some /\ result.v.kind = "Ok"

IsPrefix(a, b) == Len(a) <= Len(b) /\ SubSeq(b, 1, Len(a)) = a

\* What the call r returned is a prefix of the scene sc and the index it.
PrefixOf(r, sc, it) ==
    /\ r.kind = "Ok"
    /\ IsPrefix(r.value.v[1].paths, sc.paths)
    /\ IsPrefix(r.value.v[1].clip_paths, sc.clip_paths)
    /\ IsPrefix(r.value.v[2], it)

\* C8: render_page_n with limit n takes exactly the first min(n, len)
\* operations of the stream, in order, and none beyond; what a run that does
\* not fail returns is what the loop over that prefix yields, the paths, clip
\* paths and index entries of the run with limit n are a prefix of those with
\* limit n + 1, and with n >= len the result is the one of render_page.
C8_OpLimit ==
    /\ pc # "idle" => Len(contents) <= Limit
    /\ ReturnedOk
         => /\ Len(contents) = Limit
            /\ result.v = render_page_n(MapEmpty, contents, num_ops)
            /\ num_ops >= len => result.v = render_page(MapEmpty, contents)
            /\ contents # <<>>
                 => PrefixOf(render_page_n(MapEmpty, contents, Len(contents) - 1),
                             scene, items)

PathsOf(r) == r.value.v[1].paths

\* A stream of three operations was cut after the second, which painted a
\* path the run with limit 1 does not have.
C8_Witness ==
    /\ ReturnedOk
    /\ len = 3
    /\ num_ops = 2
    /\ Len(contents) = 2
    /\ Len(PathsOf(render_page_n(MapEmpty, contents, 1))) < Len(scene.paths)
    /\ PathsOf(result.v) = scene.paths

TextShowingOps == {"Tj", "'", "\"", "TJ"}

ItemStep ==
    items' # items
        => /\ pc = "loop"
           /\ contents' # contents
           /\ LastOp' .operator \in TextShowingOps
           /\ items' = Append(items, items'[Len(items')])
           /\ items'[Len(items')][2] = LastOp'

ItemsBounded ==
    /\ Len(items) <= Cardinality({k \in 1..Len(contents) : OpAt(k) \in TextShowingOps})
    /\ \A k \in 1..Len(items) : items[k][2].operator \in TextShowingOps

\* C9: the item index only grows, and only by Tj, ', " and TJ: such an
\* operator appends at most one (rect, operator) entry, after the entries of
\* the operators before it, and no other operator (q, Q, BT, ET among them)
\* adds, removes, reorders or changes an entry.
C9_ItemIndex == [][ItemStep]_vars /\ []ItemsBounded

\* Two text-showing operators left their entries in operator order.
C9_Witness ==
    /\ pc = "loop"
    /\ Len(contents) = 3
    /\ OpAt(2) = "Tj"
    /\ OpAt(3) = "TJ"
    /\ Len(items) = 2
    /\ items[1][2] = contents[2]
    /\ items[2][2] = contents[3]

\* An entry outlived a save, a restore and the end of the text object.
C9_WitnessKept ==
    /\ pc = "loop"
    /\ Len(contents) = 3
    /\ OpAt(2) \in TextShowingOps
    /\ OpAt(3) = "ET"
    /\ Len(items) = 1

\* ------------------------------------------------------------------------
\* Fonts that cannot be resolved, and the text rendering mode
\* ------------------------------------------------------------------------
FontOps ==
    {Operation("Tf", <<PName("F1"), I(12)>>), Operation("Tf", <<PName("F3"), I(10)>>),
     Operation("Tf", <<PName("Nope"), I(12)>>),
     Operation("gs", <<PName("GS1")>>), Operation("gs", <<PName("GS2")>>),
     Operation("Tj", <<StrA>>), Operation("'", <<StrA>>),
     Operation("\"", <<I(2), I(1), StrA>>),
     Operation("TJ", <<PArray(<<StrA, I(-100), StrA>>)>>),
     Ints("Tr", <<0>>), Ints("Tr", <<1>>), Ints("Tr", <<2>>), Ints("Tr", <<3>>),
     Ints("Tr", <<4>>), Ints("Tr", <<5>>), Ints("Tr", <<6>>), Ints("Tr", <<-1>>)}

MaxOpsFont == 3

InitFont == InitWith(MaxOpsFont, {UsizeMax})

NextFont ==
    \/ Begin
    \/ Return
    \/ Arm_Tf(FontOps)
    \/ Arm_gs(FontOps)
    \/ Arm_Tj(FontOps)
    \/ Arm_quote(FontOps)
    \/ Arm_dquote(FontOps)
    \/ Arm_TJ(FontOps)
    \/ Arm_Tr(FontOps)

SpecFont == InitFont /\ [][NextFont]_vars

\* The step runs an operation with operator in names.
Runs(names) == pc = "loop" /\ contents' # contents /\ LastOp' .operator \in names

\* The font the operation about to run names is not to be had: Tf with a
\* name the page resources lack or whose font the cache lacks, gs with a font
\* the cache lacks.
FontUnavailable(op) ==
    \/ /\ op.operator = "Tf"
       /\ \/ op.operands[1].name \notin DOMAIN Resources.fonts
          \/ Resources.fonts[op.operands[1].name].name \notin DOMAIN fonts
    \/ /\ op.operator = "gs"
       /\ Resources.graphics_states[op.operands[1].name].font.some
       /\ Resources.graphics_states[op.operands[1].name].font.v[1].name \notin DOMAIN fonts

FontCleared ==
    (Runs({"Tf", "gs"}) /\ FontUnavailable(LastOp'))
        => pc' = "loop" /\ ~text_state'.font_entry.some

TextElided ==
    (Runs(TextShowingOps) /\ ~text_state.font_entry.some)
        => /\ pc' = "loop"
           /\ scene' = scene
           /\ items' = items
           /\ LastOp' .operator = "Tj" => text_state' = text_state

\* C11: text in a font that is not to be had is left out without failing
\* the page: Tf with a name that resolves neither in the page resources nor
\* in the font cache (or gs with a font the cache lacks) does not fail and
\* leaves no current font; with no font set Tj, ', " and TJ push no path,
\* add no index entry, do not move text_matrix by glyph advances and return
\* no error.
C11_MissingFontElided == [][FontCleared /\ TextElided]_vars

ModeOf(m) ==
    CASE m = 0 -> "Fill"
      [] m = 1 -> "Stroke"
      [] m = 2 -> "FillThenStroke"
      [] m = 3 -> "Invisible"
      [] m = 4 -> "FillAndClip"
      [] m = 5 -> "StrokeAndClip"

TrStep ==
    /\ Runs({"Tr"})
         => IF LastOp' .operands[1].int \in 0..5
            THEN /\ pc' = "loop"
                 /\ text_state' = [text_state EXCEPT !.mode = ModeOf(LastOp' .operands[1].int)]
            ELSE /\ pc' = "returned"
                 /\ result'.some
                 /\ result'.v.kind = "Err"
                 /\ text_state' = text_state
    /\ pc = "returned" => FALSE

\* C12: Tr m with m in 0..5 sets the text mode to fill, stroke,
\* fill-then-stroke, invisible, fill-and-clip, stroke-and-clip in this
\* order; Tr with another integer makes the render return an error, the mode
\* as it was, and no further operator runs.
C12_TextMode == [][TrStep]_vars

\* Tr 1 set stroke, then Tr 6 failed the page with the mode still stroke.
C12_Witness ==
    /\ Failed
    /\ Len(contents) = 2
    /\ contents[1] = Ints("Tr", <<1>>)
    /\ contents[2] = Ints("Tr", <<6>>)
    /\ text_state.mode = "Stroke"

\* ------------------------------------------------------------------------
\* Text positioning: BT, Tm, Td, TD, T*, the showing operators and q/Q
\* ------------------------------------------------------------------------
StrCid == PString(<<0, 1, 0, 2>>)

PosOps ==
    {Op0("BT"), Ints("Tm", <<1, 2, 3, 4, 5, 6>>), Ints("Td", <<1, 2>>), Ints("TD", <<1, 2>>),
     Op0("T*"), Ints("TL", <<2>>),
     Operation("Tf", <<PName("F1"), I(12)>>), Operation("Tf", <<PName("F2"), I(10)>>),
     Operation("Tj", <<StrASpace>>), Operation("Tj", <<StrCid>>),
     Operation("'", <<StrA>>), Operation("\"", <<I(2), I(1), StrASpace>>),
     Operation("TJ", <<PArray(<<StrA, I(-100), StrA>>)>>),
     Op0("q"), Op0("Q"), Ints("Tc", <<1>>), Ints("Tw", <<3>>), Ints("Tz", <<50>>)}

MaxOpsPos == 3

InitPos == InitWith(MaxOpsPos, {UsizeMax})

NextPos ==
    \/ Begin
    \/ Return
    \/ Arm_BT(PosOps)
    \/ Arm_Tm(PosOps)
    \/ Arm_Td(PosOps)
    \/ Arm_TD(PosOps)
    \/ Arm_Tstar(PosOps)
    \/ Arm_TL(PosOps)
    \/ Arm_Tf(PosOps)
    \/ Arm_Tj(PosOps)
    \/ Arm_quote(PosOps)
    \/ Arm_dquote(PosOps)
    \/ Arm_TJ(PosOps)
    \/ Arm_q(PosOps)
    \/ Arm_Q(PosOps)
    \/ Arm_Tc(PosOps)
    \/ Arm_Tw(PosOps)
    \/ Arm_Tz(PosOps)

SpecPos == InitPos /\ [][NextPos]_vars

\* The k-th operand of the operation the step runs, as a number.
Arg(k) == F(LastOp' .operands[k].int)

\* After the step text_matrix and line_matrix are both m.
BothMatrices(m) ==
    /\ pc' = "loop"
    /\ text_state'.text_matrix = m
    /\ text_state'.line_matrix = m

\* The line matrix before the step, moved by (tx, ty).
LineMovedBy(tx, ty) ==
    TMul(text_state.line_matrix,
         [m11 |-> F(1), m12 |-> F(0), m13 |-> tx, m21 |-> F(0), m22 |-> F(1), m23 |-> ty])

PositionStep ==
    /\ Runs({"BT"}) => BothMatrices(Identity)
    /\ Runs({"Tm"}) =>
           BothMatrices([m11 |-> Arg(1), m12 |-> Arg(3), m13 |-> Arg(5),
                         m21 |-> Arg(2), m22 |-> Arg(4), m23 |-> Arg(6)])
    /\ Runs({"Td"}) =>
           /\ BothMatrices(LineMovedBy(Arg(1), Arg(2)))
           /\ text_state'.leading = text_state.leading
    /\ Runs({"TD"}) =>
           /\ BothMatrices(LineMovedBy(Arg(1), Arg(2)))
           /\ text_state'.leading = RNeg(Arg(2))
    /\ Runs({"T*"}) =>
           BothMatrices(LineMovedBy(F(0), RMul(RNeg(text_state.leading), text_state.font_size)))

\* C13: BT leaves text_matrix and line_matrix the identity; Tm a b c d e f
\* sets both to row_major(a, c, e, b, d, f); Td tx ty sets both to the line
\* matrix before the operator times translate(tx, ty); TD does the same and
\* sets leading to -ty; T* is Td 0 (-leading * font_size).  After each of
\* them text_matrix equals line_matrix, and the text_matrix before the
\* operator has no part in the result.
C13_TextPosition == [][PositionStep]_vars

\* Tj moved text_matrix off the line matrix, then Td 1 2 put both at the
\* line matrix (still the identity) moved by (1, 2).
C13_Witness ==
    /\ pc = "loop"
    /\ Len(contents) = 3
    /\ OpAt(1) = "Tf"
    /\ OpAt(2) = "Tj"
    /\ contents[3] = Ints("Td", <<1, 2>>)
    /\ trace[3].text_state.text_matrix # trace[3].text_state.line_matrix
    /\ text_state.line_matrix = row_major(F(1), F(0), F(1), F(0), F(1), F(2))
    /\ text_state.text_matrix = text_state.line_matrix

LineMatrixOps == {"BT", "Td", "TD", "Tm", "T*", "'", "\"", "Q"}

NextLineMatrix ==
    LineMovedBy(F(0), RMul(RNeg(text_state'.leading), text_state.font_size))

LineStep ==
    /\ (pc = "loop" /\ text_state'.line_matrix # text_state.line_matrix)
           => Runs(LineMatrixOps)
    /\ Runs({"Tj", "TJ"})
           => text_state' = [text_state EXCEPT !.text_matrix = text_state'.text_matrix]
    /\ Runs({"'", "\""}) => text_state'.line_matrix = NextLineMatrix
    /\ Runs({"T*"}) => text_state'.text_matrix = NextLineMatrix
    /\ Runs({"Td"}) => text_state'.text_matrix = LineMovedBy(Arg(1), Arg(2))

\* C19: glyph advances and the numeric adjustments of TJ change text_matrix
\* only; line_matrix is changed by BT, Td, TD, Tm, T*, ', " and Q alone (the
\* move to the next line in the case of ' and "), so that T* or Td after
\* text was shown position from the start of the line, not from the end of
\* the shown text.
C19_LineMatrix == [][LineStep]_vars

\* TJ moved text_matrix along the line and left line_matrix the identity;
\* T* with leading 0 then put text_matrix back at the start of the line.
C19_Witness ==
    /\ pc = "loop"
    /\ Len(contents) = 3
    /\ OpAt(1) = "Tf"
    /\ OpAt(2) = "TJ"
    /\ OpAt(3) = "T*"
    /\ trace[3].text_state.line_matrix = Identity
    /\ trace[3].text_state.text_matrix # Identity
    /\ text_state.text_matrix = Identity
    /\ text_state.line_matrix = Identity

\* The glyph shown for a code: the glyph id of the encoding, or glyph 0 when
\* the encoding has none.
GlyphShown(e, code) ==
    glyph(e.font, IF get_glyph(e, code)[2].some THEN get_glyph(e, code)[2].v ELSE 0)

Spacing(ts, code) == IF code = 32 THEN ts.word_space ELSE ts.char_space

\* text_matrix tm after the codes from the i-th on, each code the font has
\* a glyph for moving it by spacing * horiz_scale * font_size + m11 * advance.
RECURSIVE AdvancedOver(_, _, _, _, _, _)
AdvancedOver(tm, ts, e, codes, i, m11) ==
    IF i > Len(codes) THEN tm
    ELSE AdvancedOver(
             IF GlyphShown(e, codes[i]).some
             THEN TMul(tm, from_translation(Vector2F(
                      RAdd(RMul(RMul(Spacing(ts, codes[i]), ts.horiz_scale), ts.font_size),
                           RMul(m11, GlyphShown(e, codes[i]).v.advance_x)),
                      F(0))))
             ELSE tm,
             ts, e, codes, i + 1, m11)

\* How many of the codes draw a path: those whose glyph has contours.
DrawnCodes(e, codes) ==
    Cardinality({i \in 1..Len(codes) :
                    /\ GlyphShown(e, codes[i]).some
                    /\ Len(GlyphShown(e, codes[i]).v.path) # 0})

\* A Tj step in a font e: text_matrix moves as AdvancedOver says with the
\* factor m11, and only the codes with a glyph draw.
TjAdvances(e, codes, m11) ==
    /\ text_state'.text_matrix =
           AdvancedOver(text_state.text_matrix, text_state, e, codes, 1, m11)
    /\ Len(scene'.paths) = Len(scene.paths) + DrawnCodes(e, codes)

TjFont == fonts[text_state.font_entry.v]

TjStep == Runs({"Tj"}) /\ text_state.font_entry.some

\* C20 as stated: for each shown code whose glyph the font provides,
\* text_matrix is right-multiplied by translate(dx, 0) with dx = spacing *
\* horiz_scale * font_size + Tfs.m11 * glyph.advance.x, where Tfs.m11 =
\* horiz_scale * font_size and spacing is word_space for the code 0x20 and
\* char_space otherwise; a code whose glyph the font does not provide draws
\* nothing and does not advance text_matrix.
C20_AdvanceAsStated ==
    [][TjStep => TjAdvances(TjFont, Codes(TjFont, LastOp' .operands[1].bytes),
                            RMul(text_state.horiz_scale, text_state.font_size))]_vars

\* C20 as amended: the factor of glyph.advance.x is the m11 of Tfs times the
\* font matrix, horiz_scale * font_size * font_matrix.m11, so that the
\* advance in glyph units is taken to text space; spacing is word_space for
\* the code 0x20 and char_space otherwise; a code the encoding has no glyph
\* id for is shown as glyph 0, and a code whose glyph the font does not
\* provide draws nothing and does not advance text_matrix.
C20_Advance ==
    [][TjStep => TjAdvances(TjFont, Codes(TjFont, LastOp' .operands[1].bytes),
                            RMul(RMul(text_state.horiz_scale, text_state.font_size),
                                 TjFont.font.font_matrix.m11))]_vars

\* In the CID font at size 10 with char_space 1 the codes 1 and 2 were
\* shown: glyph 1 (advance 10, font matrix 1/10) moved text_matrix by
\* 1 * 10 + 10 * (1/10) * 10 = 20 and drew one path; the font has no glyph 2.
C20_Witness ==
    /\ pc = "loop"
    /\ Len(contents) = 3
    /\ contents[1] = Operation("Tf", <<PName("F2"), I(10)>>)
    /\ contents[2] = Ints("Tc", <<1>>)
    /\ contents[3] = Operation("Tj", <<StrCid>>)
    /\ text_state.text_matrix = from_translation(Vector2F(F(20), F(0)))
    /\ Len(scene.paths) = 3

\* ------------------------------------------------------------------------
\* The current transformation matrix: cm
\* ------------------------------------------------------------------------
MatrixOps ==
    {Ints("cm", <<1, 0, 0, 1, 0, 0>>), Ints("cm", <<2, 0, 0, 1, 1, 0>>),
     Ints("cm", <<0, 1, -1, 0, 0, 0>>), Ints("cm", <<1, 2, 3, 4, 5, 6>>),
     Op0("q"), Op0("Q"), Ints("m", <<0, 0>>), Ints("l", <<1, 0>>), Ints("w", <<5>>),
     Operation("Tf", <<PName("F1"), I(12)>>), Ints("Td", <<1, 0>>), Op0("S")}

MaxOpsMatrix == 3

InitMatrix == InitWith(MaxOpsMatrix, {UsizeMax})

NextMatrix ==
    \/ Begin
    \/ Return
    \/ Arm_cm(MatrixOps)
    \/ Arm_q(MatrixOps)
    \/ Arm_Q(MatrixOps)
    \/ Arm_m(MatrixOps)
    \/ Arm_l(MatrixOps)
    \/ Arm_w(MatrixOps)
    \/ Arm_Tf(MatrixOps)
    \/ Arm_Td(MatrixOps)
    \/ Arm_S(MatrixOps)

SpecMatrix == InitMatrix /\ [][NextMatrix]_vars

\* t * row_major(a, c, e, b, d, f) for the operands a b c d e f of op, written
\* out by component.
Concat(t, op) ==
    LET a == F(op.operands[1].int)
        b == F(op.operands[2].int)
        c == F(op.operands[3].int)
        d == F(op.operands[4].int)
        e == F(op.operands[5].int)
        f == F(op.operands[6].int)
    IN  [m11 |-> RAdd(RMul(t.m11, a), RMul(t.m12, b)),
         m12 |-> RAdd(RMul(t.m11, c), RMul(t.m12, d)),
         m13 |-> RAdd(RAdd(RMul(t.m11, e), RMul(t.m12, f)), t.m13),
         m21 |-> RAdd(RMul(t.m21, a), RMul(t.m22, b)),
         m22 |-> RAdd(RMul(t.m21, c), RMul(t.m22, d)),
         m23 |-> RAdd(RAdd(RMul(t.m21, e), RMul(t.m22, f)), t.m23)]

CmStep ==
    Runs({"cm"}) =>
        /\ pc' = "loop"
        /\ graphics_state' =
               [graphics_state EXCEPT !.transform = Concat(graphics_state.transform, LastOp')]
        /\ text_state' = text_state
        /\ path_builder' = path_builder
        /\ stack' = stack
        /\ scene' = scene
        /\ LastOp' = Ints("cm", <<1, 0, 0, 1, 0, 0>>) => graphics_state' = graphics_state
        /\ (contents # <<>> /\ LastOp.operator = "cm") =>
               graphics_state'.transform =
                   Concat(Concat(trace[Len(contents)].graphics_state.transform, LastOp),
                          LastOp')

\* C14: cm a b c d e f replaces the current transform T by
\* T * row_major(a, c, e, b, d, f), a multiplication on the right (after cm A
\* and cm B the transform is T*A*B), and changes no other field of the
\* graphics state, nor the text state, the path builder or the stack; with
\* the operands 1 0 0 1 0 0 the transform stays as it was.
C14_Concat == [][CmStep]_vars

\* After q, cm 2 0 0 1 1 0 (A) and cm 0 1 -1 0 0 0 (B) the transform is the
\* one the page started with times A*B, which differs from that times B*A,
\* and the saved state is still on the stack.
C14_Witness ==
    /\ pc = "loop"
    /\ Len(contents) = 3
    /\ OpAt(1) = "q"
    /\ contents[2] = Ints("cm", <<2, 0, 0, 1, 1, 0>>)
    /\ contents[3] = Ints("cm", <<0, 1, -1, 0, 0, 0>>)
    /\ graphics_state.transform =
           TMul(trace[1].graphics_state.transform,
                row_major(F(0), F(-2), F(1), F(1), F(0), F(0)))
    /\ graphics_state.transform #
           TMul(trace[1].graphics_state.transform,
                row_major(F(0), F(-1), F(0), F(2), F(0), F(1)))
    /\ Len(stack) = 1

\* ------------------------------------------------------------------------
\* Queries on the item index
\* ------------------------------------------------------------------------
QueryOps ==
    {Op0("BT"), Operation("Tf", <<PName("F1"), I(12)>>),
     Operation("Tj", <<StrA>>), Operation("'", <<StrA>>),
     Operation("TJ", <<PArray(<<StrA, I(-100), StrA>>)>>),
     Ints("Td", <<20, 0>>)}

\* Points inside one glyph box, on the corner two boxes share, inside a box
\* further along the line, and off the page.
QueryPoints ==
    {Vector2F(F(3), F(1)), Vector2F(F(6), F(4)), Vector2F(F(9), F(1)),
     Vector2F(F(13), F(1)), Vector2F(F(50), F(50))}

MaxOpsQuery == 4

InitQuery == InitWith(MaxOpsQuery, {UsizeMax})

NextQuery ==
    \/ Begin
    \/ Return
    \/ Arm_BT(QueryOps)
    \/ Arm_Tf(QueryOps)
    \/ Arm_Tj(QueryOps)
    \/ Arm_quote(QueryOps)
    \/ Arm_TJ(QueryOps)
    \/ Arm_Td(QueryOps)
    \/ Query_get_string(QueryPoints)
    \/ Query_print(QueryPoints)

SpecQuery == InitQuery /\ [][NextQuery]_vars

\* The entries of the returned index whose rect contains p, by position.
Inside(r, p) ==
    /\ RLe(r.origin[1], p[1]) /\ RLe(p[1], r.lower_right[1])
    /\ RLe(r.origin[2], p[2]) /\ RLe(p[2], r.lower_right[2])

Hits(p) == {i \in 1..Len(ReturnedItems) : Inside(ReturnedItems[i][1], p)}

\* The k-th of them in insertion order.
KthHit(p, k) == CHOOSE i \in Hits(p) : Cardinality({j \in Hits(p) : j <= i}) = k

Lines(p) ==
    [k \in 1..Cardinality(Hits(p)) |-> DisplayOperation(ReturnedItems[KthHit(p, k)][2])]

\* The entries among the first n that contain p, as one string.
RECURSIVE Listed(_, _)
Listed(p, n) ==
    IF n = 0 THEN ""
    ELSE IF n \notin Hits(p) THEN Listed(p, n - 1)
    ELSE IF Hits(p) \cap (1..(n - 1)) = {} THEN DisplayOperation(ReturnedItems[n][2])
    ELSE Listed(p, n - 1) \o ", " \o DisplayOperation(ReturnedItems[n][2])

QueryStep ==
    query' # query =>
        /\ result' = result
        /\ query'.v.fn = "get_string" =>
               /\ query'.v.ret.some <=> Hits(query'.v.p) # {}
               /\ query'.v.ret.some =>
                      query'.v.ret.v = Listed(query'.v.p, Len(ReturnedItems))
        /\ query'.v.fn = "print" => query'.v.out = Lines(query'.v.p)

\* C15: ItemMap::get_string(p) returns None exactly when no recorded rect
\* contains p; otherwise it returns the operators, as strings, of exactly
\* the entries whose rect contains p, each once, joined by ", " in insertion
\* order.  ItemMap::print(p) prints the same entries in the same order.
\* Neither query modifies the index.
C15_Queries == [][QueryStep]_vars

\* The index holds Tj, TJ and ' in this order; the point (3, 1) lies in the
\* boxes of Tj and of ' and not in that of TJ, further along the line.
C15_Witness ==
    /\ pc = "returned"
    /\ query.some
    /\ query.v.fn = "get_string"
    /\ query.v.p = Vector2F(F(3), F(1))
    /\ Len(ReturnedItems) = 3
    /\ Hits(query.v.p) = {1, 3}
    /\ query.v.ret = Some("Tj : (65), ' : (65)")

\* The media box at the scale of the view: the outline rect() builds.
PageOutline ==
    LET w == RMul(RSub(MediaBox.right, MediaBox.left), <<1, 2>>)
        h == RMul(RSub(MediaBox.top, MediaBox.bottom), <<1, 2>>)
    IN  <<Seg("move", <<Vector2F(F(0), F(0))>>), Seg("line", <<Vector2F(w, F(0))>>),
          Seg("line", <<Vector2F(w, h)>>), Seg("line", <<Vector2F(F(0), h)>>),
          Seg("close", <<>>)>>

\* The scene holds the page background and nothing else.
BackgroundOnly(sc) ==
    /\ Len(sc.paths) = 2
    /\ sc.paths[1].outline = PageOutline
    /\ sc.paints[sc.paths[1].paint + 1] = White
    /\ ~sc.paths[1].stroke.some
    /\ ~sc.paths[1].clip_path.some
    /\ sc.paths[2].outline = PageOutline
    /\ sc.paints[sc.paths[2].paint + 1] = Black
    /\ sc.paths[2].stroke.some
    /\ ~sc.paths[2].clip_path.some
    /\ sc.clip_paths = <<>>

ColourOps ==
    {Operation("CS", <<PName("DeviceCMYK")>>), Operation("CS", <<PName("CS0")>>),
     Ints("K", <<0, 1, 1, 0>>), Ints("m", <<0, 0>>), Ints("l", <<1, 0>>), Op0("S")}

MaxOpsColour == 5

InitColour == InitWith(MaxOpsColour, {UsizeMax})

NextColour ==
    \/ Begin
    \/ Return
    \/ Arm_CS(ColourOps)
    \/ Arm_K(ColourOps)
    \/ Arm_m(ColourOps)
    \/ Arm_l(ColourOps)
    \/ Arm_S(ColourOps)

SpecColour == InitColour /\ [][NextColour]_vars

CmykScenario ==
    <<Operation("CS", <<PName("DeviceCMYK")>>), Ints("K", <<0, 1, 1, 0>>),
      Ints("m", <<0, 0>>), Ints("l", <<1, 0>>), Op0("S")>>

\* The last path of the scene is a stroke in the solid colour c.
StrokedIn(sc, c) ==
    /\ Len(sc.paths) > 2
    /\ sc.paths[Len(sc.paths)].stroke.some
    /\ sc.paints[sc.paths[Len(sc.paths)].paint + 1] = PaintColor(c)

\* C17: rendering the stream CS /DeviceCMYK; K 0 1 1 0; m 0 0; l 1 0; S
\* succeeds and pushes a stroked segment whose paint is the solid colour
\* (255, 0, 0, 255): CS selects the stroke colour space and K c m y k sets
\* the stroke paint to R = (1-c)(1-k), G = (1-m)(1-k), B = (1-y)(1-k), each
\* times 255 and truncated, with alpha 255.
C17_CmykStroke ==
    IsPrefix(contents, CmykScenario) =>
        /\ pc # "panicked"
        /\ pc = "returned" => result.v.kind = "Ok"
        /\ (pc = "loop" /\ contents = CmykScenario)
               => StrokedIn(scene, ColorU(255, 0, 0, 255))

\* ------------------------------------------------------------------------
\* The font cache over successive calls
\* ------------------------------------------------------------------------
CacheOps ==
    {Operation("Tf", <<PName("F1"), I(12)>>), Operation("Tf", <<PName("F3"), I(10)>>),
     Operation("gs", <<PName("GS1")>>), Operation("gs", <<PName("GS2")>>),
     Operation("Tj", <<StrA>>), Op0("q"), Op0("Q"), Op0("BT")}

MaxOpsCache == 2

InitCache == InitOn(MaxOpsCache, {UsizeMax}, {1, 2})

NextCache ==
    \/ Begin
    \/ Return
    \/ Again(MaxOpsCache)
    \/ Arm_Tf(CacheOps)
    \/ Arm_gs(CacheOps)
    \/ Arm_Tj(CacheOps)
    \/ Arm_q(CacheOps)
    \/ Arm_Q(CacheOps)
    \/ Arm_BT(CacheOps)

SpecCache == InitCache /\ [][NextCache]_vars

\* The font the text state ts points at is in the cache.
RefValid(ts) == ts.font_entry.some => ts.font_entry.v \in DOMAIN fonts

CacheRefs ==
    /\ RefValid(text_state)
    /\ \A i \in 1..Len(stack) : RefValid(stack[i][2])

CacheStep ==
    /\ fonts' # fonts => (pc = "idle" /\ contents' = <<>>)
    /\ \A n \in DOMAIN fonts : n \in DOMAIN fonts' /\ fonts'[n] = fonts[n]

\* C18: the font cache is changed only by the pre-pass that loads the fonts
\* of the page, before the first operator runs: no operator of the loop
\* inserts, replaces or removes an entry, and load_font never replaces or
\* removes an entry that is already there under the same font name, also
\* across successive render_page calls on the same Cache; so a font entry
\* the text state or a saved stack entry refers to stays valid and stays the
\* same entry.
C18_CacheFrame == []CacheRefs /\ [][CacheStep]_vars

\* A later call renders page 2, whose font "Simple" is CID-keyed: the
\* pre-pass added "NoData" and kept the entry "Simple" the first page
\* loaded, which the text state and the saved state refer to.
C18_Witness ==
    /\ pc = "loop"
    /\ page_no = 2
    /\ "NoData" \in DOMAIN fonts
    /\ ~fonts["Simple"].is_cid
    /\ text_state.font_entry = Some("Simple")
    /\ Len(stack) = 1
    /\ stack[1][2].font_entry = Some("Simple")

\* ------------------------------------------------------------------------
\* TJ: strings and adjustments
\* ------------------------------------------------------------------------
StrB == PString(<<66>>)

TJOps ==
    {Operation("Tf", <<PName("F1"), I(10)>>), Ints("Tc", <<1>>), Ints("Tw", <<3>>),
     Ints("Tz", <<50>>), Ints("Td", <<20, 0>>),
     Operation("Tj", <<StrA>>),
     Operation("TJ", <<PArray(<<StrA, I(-500), StrB>>)>>),
     Operation("TJ", <<PArray(<<StrASpace, I(200), StrA, I(-100)>>)>>),
     Operation("TJ", <<PArray(<<I(300)>>)>>),
     Operation("TJ", <<PArray(<<>>)>>)}

MaxOpsTJ == 4

InitTJ == InitWith(MaxOpsTJ, {UsizeMax})

NextTJ ==
    \/ Begin
    \/ Return
    \/ Arm_Tf(TJOps)
    \/ Arm_Tc(TJOps)
    \/ Arm_Tw(TJOps)
    \/ Arm_Tz(TJOps)
    \/ Arm_Td(TJOps)
    \/ Arm_Tj(TJOps)
    \/ Arm_TJ(TJOps)

SpecTJ == InitTJ /\ [][NextTJ]_vars

\* The locals after the elements of array from the i-th on, a string shown
\* as Tj shows it and a number n moving text_matrix by
\* translate(-0.001 * n * font_size * horiz_scale, 0).
RECURSIVE ElementWise(_, _, _)
ElementWise(L, array, i) ==
    IF i > Len(array) THEN L
    ELSE ElementWise(
             IF array[i].kind = "String"
             THEN Op_Tj(L, Operation("Tj", <<array[i]>>))
             ELSE [L EXCEPT !.text_state.text_matrix =
                       TMul(@, from_translation(Vector2F(
                           RMul(RMul(RMul(<<-1, 1000>>, F(array[i].int)),
                                     L.text_state.font_size),
                                L.text_state.horiz_scale),
                           F(0))))],
             array, i + 1)

\* The rect that spans the rects of the entries es (not empty).
Spanning(es) ==
    [origin |-> Vector2F(RMinOf({es[i][1].origin[1] : i \in 1..Len(es)}),
                         RMinOf({es[i][1].origin[2] : i \in 1..Len(es)})),
     lower_right |-> Vector2F(RMaxOf({es[i][1].lower_right[1] : i \in 1..Len(es)}),
                              RMaxOf({es[i][1].lower_right[2] : i \in 1..Len(es)}))]

\* The step did what showing the elements one by one did (R), with one
\* entry for the operator in place of the entries of the strings.
SameAsElements(R) ==
    /\ pc' = "loop"
    /\ text_state' = R.text_state
    /\ scene' = R.scene
    /\ items' = IF Len(R.items) = Len(items) THEN items
                ELSE Append(items,
                            <<Spanning(SubSeq(R.items, Len(items) + 1, Len(R.items))),
                              LastOp'>>)

\* The TJ of the example, run with a font at size 10 and horiz_scale 1.
ExampleStep ==
    /\ Runs({"TJ"})
    /\ LastOp' = Operation("TJ", <<PArray(<<StrA, I(-500), StrB>>)>>)
    /\ text_state.font_entry.some
    /\ text_state.font_size = F(10)
    /\ text_state.horiz_scale = F(1)

\* The width of the glyph of A in text space: tr.m11 * advance.x.
GlyphWidth == RMul(GlyphTr(text_state, TjFont).m11, GlyphShown(TjFont, 65).v.advance_x)

\* How far the origin of B lies from the origin of A: what text_matrix moved
\* by, less the advance of B itself.
OriginOfB ==
    RSub(RSub(text_state'.text_matrix.m13, text_state.text_matrix.m13),
         GlyphAdvance(text_state, GlyphTr(text_state, TjFont), 66,
                      GlyphShown(TjFont, 66).v.advance_x))

TJStep == Runs({"TJ"}) => SameAsElements(ElementWise(Locals, LastOp' .operands[1].array, 1))

\* C21 as stated: in TJ the elements are processed in array order; a
\* numeric element n right-multiplies text_matrix by
\* translate(-0.001 * n * font_size * horiz_scale, 0) and draws nothing, a
\* string element is shown like Tj; hence for TJ [(A) -500 (B)] with
\* font_size 10 and horiz_scale 1 the origin of B lies at A's advance + 5.0
\* plus char_space from the origin of A; the one index entry of the TJ has
\* the union of the bounding boxes of its string elements.
C21_TJAsStated ==
    [][/\ TJStep
       /\ ExampleStep =>
              OriginOfB = RAdd(RAdd(GlyphWidth, F(5)), text_state.char_space)]_vars

\* C21 as amended: the same, but the origin of B lies at A's advance + 5.0
\* plus char_space * horiz_scale * font_size from the origin of A: the
\* spacing enters the advance of A scaled by the font size, as for every
\* shown glyph.
C21_TJ ==
    [][/\ TJStep
       /\ ExampleStep =>
              OriginOfB =
                  RAdd(RAdd(GlyphWidth, F(5)),
                       RMul(RMul(text_state.char_space, text_state.horiz_scale),
                            text_state.font_size))]_vars

\* Tf /F1 10, Tc 1, TJ [(A) -500 (B)]: text_matrix moved by (10 + 10) + 5 +
\* (10 + 10) and the index has one entry for the TJ.
C21_Witness ==
    /\ pc = "loop"
    /\ Len(contents) = 3
    /\ contents[1] = Operation("Tf", <<PName("F1"), I(10)>>)
    /\ contents[2] = Ints("Tc", <<1>>)
    /\ contents[3] = Operation("TJ", <<PArray(<<StrA, I(-500), StrB>>)>>)
    /\ text_state.text_matrix = from_translation(Vector2F(F(45), F(0)))
    /\ Len(items) = 1
    /\ items[1][2] = contents[3]
    /\ Len(scene.paths) = 4

\* ------------------------------------------------------------------------
\* The text rendering mode and the paths of shown text
\* ------------------------------------------------------------------------
ModeOps ==
    {Ints("Tr", <<2>>), Ints("Tr", <<4>>),
     Operation("Tf", <<PName("F1"), I(12)>>),
     Operation("Tj", <<StrASpace>>),
     Operation("TJ", <<PArray(<<StrA, I(-100), StrA>>)>>),
     Ints("RG", <<1, 0, 0>>), Ints("w", <<5>>)}

MaxOpsMode == 4

InitMode == InitWith(MaxOpsMode, {UsizeMax})

NextMode ==
    \/ Begin
    \/ Return
    \/ Arm_Tr(ModeOps)
    \/ Arm_Tf(ModeOps)
    \/ Arm_Tj(ModeOps)
    \/ Arm_TJ(ModeOps)
    \/ Arm_SC(ModeOps)
    \/ Arm_w(ModeOps)

SpecMode == InitMode /\ [][NextMode]_vars

\* What the operation op does from the state before the step, were the text
\* mode m.
InMode(m, op) == Exec([Locals EXCEPT !.text_state.mode = m], op)

\* The paths R pushed on top of those of the scene before the step.
Pushed(R) == SubSeq(R.scene.paths, Len(scene.paths) + 1, Len(R.scene.paths))

IsFillOf(p, gs) ==
    /\ ~p.stroke.some
    /\ p.paint = gs.fill_paint
    /\ p.fill_rule = "Winding"

IsStrokeOf(p, gs) ==
    /\ p.stroke = Some(line_style(gs))
    /\ p.paint = gs.stroke_paint

\* The paths of the three drawing modes, glyph by glyph, and none in the
\* other three.
PathsByMode(op) ==
    LET fill == Pushed(InMode("Fill", op))
        stroke == Pushed(InMode("Stroke", op))
        both == Pushed(InMode("FillThenStroke", op))
    IN  /\ \A i \in 1..Len(fill) : IsFillOf(fill[i], graphics_state)
        /\ Len(stroke) = Len(fill)
        /\ \A i \in 1..Len(stroke) :
               /\ IsStrokeOf(stroke[i], graphics_state)
               /\ stroke[i].outline = fill[i].outline
        /\ Len(both) = 2 * Len(fill)
        /\ \A i \in 1..Len(fill) :
               /\ both[2 * i - 1] = fill[i]
               /\ both[2 * i] = stroke[i]
        /\ \A m \in {"Invisible", "FillAndClip", "StrokeAndClip"} :
               /\ InMode(m, op).scene = scene
               /\ InMode(m, op).graphics_state = graphics_state

\* Nothing but the paths depends on the mode.
SameButPaths(op) ==
    \A m \in {TextModes[i] : i \in 1..6} :
        /\ InMode(m, op).outcome = "continue"
        /\ InMode(m, op).text_state =
               [InMode("Fill", op).text_state EXCEPT !.mode = m]
        /\ InMode(m, op).items = InMode("Fill", op).items
        /\ InMode(m, op).graphics_state = graphics_state
        /\ InMode(m, op).scene.clip_paths = scene.clip_paths
        /\ InMode(m, op).scene.paints = scene.paints

ModeStep ==
    Runs(TextShowingOps) =>
        /\ PathsByMode(LastOp')
        /\ SameButPaths(LastOp')
        /\ scene' = InMode(text_state.mode, LastOp').scene
        /\ (LastOp' .operator = "Tj" /\ text_state.font_entry.some) =>
               Len(Pushed(InMode("Fill", LastOp'))) =
                   DrawnCodes(TjFont, Codes(TjFont, LastOp' .operands[1].bytes))

\* C22: the text mode decides only which paths are pushed: for the same
\* string and the same graphics and text state otherwise, a text-showing
\* operator in mode fill pushes one path per glyph with contours, with the
\* fill paint and the winding rule; in mode stroke one with the stroke paint
\* and the current line style; in mode fill-then-stroke both, the fill
\* first; in the modes invisible, fill-and-clip and stroke-and-clip no path,
\* and no clip changes; text_matrix afterwards and the index entry of the
\* operator are the same in all six modes.
C22_TextModePaths == [][ModeStep]_vars

\* Tf /F1 12, RG 1 0 0, Tr 2, Tj (A ): the glyph of A was pushed as a fill in
\* the fill paint and then as a stroke in red; the space pushed nothing.
C22_Witness ==
    /\ pc = "loop"
    /\ Len(contents) = 4
    /\ OpAt(1) = "Tf"
    /\ OpAt(2) = "RG"
    /\ contents[3] = Ints("Tr", <<2>>)
    /\ OpAt(4) = "Tj"
    /\ Len(scene.paths) = 4
    /\ ~scene.paths[3].stroke.some
    /\ scene.paths[4].stroke.some
    /\ scene.paints[scene.paths[4].paint + 1] = PaintColor(ColorU(255, 0, 0, 255))
    /\ Len(items) = 1

\* ------------------------------------------------------------------------
\* The width of strokes
\* ------------------------------------------------------------------------
WidthOps ==
    {Ints("w", <<5>>), Ints("cm", <<-1, 0, 0, 1, 0, 0>>), Ints("cm", <<2, 0, 0, 1, 0, 0>>),
     Ints("m", <<0, 0>>), Ints("l", <<1, 0>>), Op0("S"), Op0("B"), Op0("q"), Op0("Q")}

MaxOpsWidth == 4

InitWidth == InitWith(MaxOpsWidth, {UsizeMax})

NextWidth ==
    \/ Begin
    \/ Return
    \/ Arm_w(WidthOps)
    \/ Arm_cm(WidthOps)
    \/ Arm_m(WidthOps)
    \/ Arm_l(WidthOps)
    \/ Arm_S(WidthOps)
    \/ Arm_B(WidthOps)
    \/ Arm_q(WidthOps)
    \/ Arm_Q(WidthOps)

SpecWidth == InitWidth /\ [][NextWidth]_vars

\* The strokes the step pushed are of width w, with miter limit w and a butt
\* cap.
StrokesOfWidth(w) ==
    \A i \in (Len(scene.paths) + 1)..Len(scene'.paths) :
        scene'.paths[i].stroke.some =>
            /\ scene'.paths[i].stroke.v.line_width = w
            /\ scene'.paths[i].stroke.v.line_join = <<"Miter", w>>
            /\ scene'.paths[i].stroke.v.line_cap = "Butt"

StrokingOps == {"S", "s", "B", "B*", "b", "b*"}

\* C23: the line width of every stroke is stroke_width * |transform.m11|,
\* with the stroke width and the transform current when the stroking
\* operator runs (not when w ran); for a stroke_width that is not negative
\* it is never negative, also under a transform with a negative m11 (a
\* horizontal mirror).  The miter limit of the stroke is this width and the
\* cap is butt.
C23_LineWidth ==
    [][Runs(StrokingOps) =>
           /\ StrokesOfWidth(RMul(graphics_state.stroke_width,
                                  RAbs(graphics_state.transform.m11)))
           /\ \A i \in (Len(scene.paths) + 1)..Len(scene'.paths) :
                  scene'.paths[i].stroke.some =>
                      RLe(F(0), scene'.paths[i].stroke.v.line_width)]_vars

\* ------------------------------------------------------------------------
\* The path builder and the painting operators
\* ------------------------------------------------------------------------
BuilderOps ==
    {Ints("m", <<0, 0>>), Ints("l", <<1, 0>>), Op0("S"), Op0("s"), Op0("f"), Op0("F"),
     Op0("f*"), Op0("B"), Op0("B*"), Op0("b"), Op0("b*"), Op0("n"), Op0("W"), Op0("W*"),
     Op0("q"), Op0("Q")}

MaxOpsBuilder == 3

InitBuilder == InitWith(MaxOpsBuilder, {UsizeMax})

NextBuilder ==
    \/ Begin
    \/ Return
    \/ Arm_m(BuilderOps)
    \/ Arm_l(BuilderOps)
    \/ Arm_S(BuilderOps)
    \/ Arm_s(BuilderOps)
    \/ Arm_f(BuilderOps)
    \/ Arm_B(BuilderOps)
    \/ Arm_b(BuilderOps)
    \/ Arm_n(BuilderOps)
    \/ Arm_W(BuilderOps)
    \/ Arm_q(BuilderOps)
    \/ Arm_Q(BuilderOps)

SpecBuilder == InitBuilder /\ [][NextBuilder]_vars

ConsumingOps == {"S", "s", "f", "F", "f*", "B", "B*", "b", "b*", "n", "W", "W*"}

\* The operations run since the last consuming operator (all of them when
\* there was none).
SinceConsumed ==
    {k \in 1..Len(contents) :
        \A j \in k..Len(contents) : contents[j].operator \notin ConsumingOps}

\* The segments the operators since then have constructed; the builder
\* starts the page with the one move_to of the setup.
Constructed ==
    Cardinality({k \in SinceConsumed : contents[k].operator \in {"m", "l"}})
        + (IF \E k \in 1..Len(contents) : contents[k].operator \in ConsumingOps
           THEN 0 ELSE 1)

\* The segments of an outline that are not the closing of a subpath.
Drawn(outline) == Cardinality({i \in 1..Len(outline) : outline[i].seg # "close"})

BuilderStep ==
    /\ Runs(ConsumingOps) =>
           /\ pc' = "loop"
           /\ path_builder'.outline = <<>>
           /\ \A i \in (Len(scene.paths) + 1)..Len(scene'.paths) :
                  Drawn(scene'.paths[i].outline) = Constructed
           /\ \A i \in (Len(scene.clip_paths) + 1)..Len(scene'.clip_paths) :
                  Drawn(scene'.clip_paths[i].outline) = Constructed
    /\ Runs({"q", "Q"}) => path_builder' = path_builder

\* C24: every path-painting operator consumes the path builder: after any
\* of S, s, f, F, f*, B, B*, b, b*, n, W, W* the builder holds no segments,
\* so segments constructed before such an operator are never part of an
\* outline a later operator paints or installs as a clip; q and Q neither
\* save nor restore the contents of the builder, nor change them.
C24_BuilderConsumed == [][BuilderStep]_vars

\* l 1 0, S, W: the stroke took the line, and the clip installed afterwards
\* has no segment.
C24_Witness ==
    /\ pc = "loop"
    /\ Len(contents) = 3
    /\ OpAt(1) = "l"
    /\ OpAt(2) = "S"
    /\ OpAt(3) = "W"
    /\ Drawn(scene.paths[3].outline) = 2
    /\ Len(scene.clip_paths) = 1
    /\ Drawn(scene.clip_paths[1].outline) = 0
    /\ path_builder.outline = <<>>

\* ------------------------------------------------------------------------
\* Indexed colour spaces
\* ------------------------------------------------------------------------
IndexedOps ==
    {Operation("CS", <<PName("CS1")>>), Operation("CS", <<PName("CS2")>>),
     Ints("SC", <<0>>), Ints("SC", <<1>>), Ints("SC", <<2>>),
     Ints("m", <<0, 0>>), Ints("l", <<1, 0>>), Op0("S")}

MaxOpsIndexed == 3

InitIndexed == InitWith(MaxOpsIndexed, {UsizeMax})

NextIndexed ==
    \/ Begin
    \/ Return
    \/ Arm_CS(IndexedOps)
    \/ Arm_SC(IndexedOps)
    \/ Arm_m(IndexedOps)
    \/ Arm_l(IndexedOps)
    \/ Arm_S(IndexedOps)

SpecIndexed == InitIndexed /\ [][NextIndexed]_vars

\* A lookup-table byte as a colour component.
ByteComponent(b) == <<b, 255>>

\* The paint of the i-th entry of lut under the base colour space.
EntryPaint(cs, i) ==
    IF cs.base = "DeviceRGB"
    THEN PaintColor(ColorU(cs.lut[3 * i + 1], cs.lut[3 * i + 2], cs.lut[3 * i + 3], 255))
    ELSE cmyk2fill(ByteComponent(cs.lut[4 * i + 1]), ByteComponent(cs.lut[4 * i + 2]),
                   ByteComponent(cs.lut[4 * i + 3]), ByteComponent(cs.lut[4 * i + 4]))

EntryInRange(cs, i) ==
    LutInRange(cs.lut, (IF cs.base = "DeviceRGB" THEN 3 ELSE 4) * i,
               IF cs.base = "DeviceRGB" THEN 3 ELSE 4)

\* The stroke paint in force.
StrokePaint(gs, sc) == sc.paints[gs.stroke_paint + 1]

IndexedStep ==
    (/\ Runs({"SC"})
     /\ graphics_state.stroke_color_space.kind = "Indexed"
     /\ EntryInRange(graphics_state.stroke_color_space, LastOp' .operands[1].int)) =>
        /\ pc' = "loop"
        /\ StrokePaint(graphics_state', scene') =
               EntryPaint(graphics_state.stroke_color_space, LastOp' .operands[1].int)
        /\ StrokePaint(graphics_state', scene').color[4] = 255

\* C25: under Indexed(base, lut) a colour operator with the integer index i
\* sets the paint of the i-th entry of lut converted under the base colour
\* space, each byte b of a device-CMYK entry taken as b/255: the entry
\* (0,255,255,0) gives (255,0,0,255), (255,255,255,255) gives (0,0,0,255);
\* alpha is 255.
C25_IndexedPaint == [][IndexedStep]_vars

\* ------------------------------------------------------------------------
\* The codes and the glyph ids of a shown string
\* ------------------------------------------------------------------------
DecodeOps ==
    {Operation("Tf", <<PName("F1"), I(10)>>), Operation("Tf", <<PName("F2"), I(10)>>),
     Operation("Tj", <<PString(<<>>)>>), Operation("Tj", <<PString(<<65>>)>>),
     Operation("Tj", <<PString(<<0, 1, 0>>)>>), Operation("Tj", <<PString(<<0, 2, 0, 0>>)>>),
     Operation("Tj", <<PString(<<65, 90>>)>>), Operation("Tj", <<PString(<<1, 0>>)>>)}

MaxOpsDecode == 3

\* Page 1, and the pages whose font "Simple" has a table, an identity-h
\* encoding, no map at all, and a named encoding in a CID-keyed font.
DecodePages == {1, 3, 6, 10, 12}

InitDecode == InitOn(MaxOpsDecode, {UsizeMax}, DecodePages)

NextDecode ==
    \/ Begin
    \/ Return
    \/ Arm_Tf(DecodeOps)
    \/ Arm_Tj(DecodeOps)

SpecDecode == InitDecode /\ [][NextDecode]_vars

\* The codes of the bytes from the i-th on: two bytes a code, the first the
\* high one, when two_bytes; else a byte a code.
RECURSIVE CodesFrom(_, _, _)
CodesFrom(two_bytes, data, i) ==
    IF two_bytes
    THEN IF i + 1 > Len(data) THEN <<>>
         ELSE <<256 * data[i] + data[i + 1]>> \o CodesFrom(two_bytes, data, i + 2)
    ELSE IF i > Len(data) THEN <<>>
         ELSE <<data[i]>> \o CodesFrom(two_bytes, data, i + 1)

\* The glyph id of a code in the font entry e.
GlyphIdOf(e, code) ==
    IF e.encoding.kind = "CID" THEN code
    ELSE IF code \in DOMAIN e.encoding.cmap THEN e.encoding.cmap[code]
    ELSE 0

\* The glyphs of the ids of the codes from the i-th on, shown one after the
\* other.
RECURSIVE ShownCodes(_, _, _, _, _, _, _)
ShownCodes(run, e, codes, i, root_tr, style, clip) ==
    IF i > Len(codes) THEN run
    ELSE ShownCodes(ShowGlyph(run, glyph(e.font, GlyphIdOf(e, codes[i])), GlyphTr(run.ts, e),
                              root_tr, style, clip, codes[i]),
                    e, codes, i + 1, root_tr, style, clip)

LeftAs(run) == text_state' = run.ts /\ scene' = run.scene

DecodedAs(e, codes) ==
    /\ Len(codes) = IF e.is_cid THEN Len(LastOp' .operands[1].bytes) \div 2
                    ELSE Len(LastOp' .operands[1].bytes)
    /\ LeftAs(ShownCodes(TextRun(text_state, scene, BBoxEmpty), e, codes, 1,
                         graphics_state.transform,
                         get_text_style(graphics_state, text_state.mode),
                         graphics_state.clip_path))

DecodeStep ==
    TjStep => /\ pc' = "loop"
              /\ DecodedAs(TjFont, CodesFrom(TjFont.is_cid, LastOp' .operands[1].bytes, 1))

\* C26: a shown string of L bytes is decoded into floor(L/2) big-endian
\* two-byte codes when the font entry's is_cid is true, the odd last byte
\* ignored, and into L one-byte codes otherwise, in the order of the string;
\* the glyph of a code is the code when the encoding is CID, else the map's
\* value, and glyph 0 when the map has no entry.
C26_Decode == [][DecodeStep]_vars

\* Tf /F1 10; Tj <00 01 00> on the page whose font has the table (1, 0, 2):
\* one code, 1, shown as glyph 0, which advances by 10.
C26_Witness ==
    /\ pc = "loop"
    /\ page_no = 3
    /\ contents = <<Operation("Tf", <<PName("F1"), I(10)>>),
                    Operation("Tj", <<PString(<<0, 1, 0>>)>>)>>
    /\ fonts["Simple"].is_cid
    /\ Len(scene.paths) = 3
    /\ text_state.text_matrix = from_translation(Vector2F(F(10), F(0)))

\* ------------------------------------------------------------------------
\* The cid-to-gid table of the document font
\* ------------------------------------------------------------------------
TableOps ==
    {Operation("Tf", <<PName("F1"), I(10)>>), Operation("Tj", <<PString(<<0, 0>>)>>),
     Operation("Tj", <<PString(<<0, 1>>)>>), Operation("Tj", <<PString(<<0, 2, 0, 0>>)>>)}

MaxOpsTable == 3

\* The pages whose font "Simple" has a table: of 3, 2, 0 and 65537 entries.
TablePages == {3, 4, 5, LongTablePage}

InitTable == InitOn(MaxOpsTable, {UsizeMax}, TablePages)

NextTable ==
    \/ Begin
    \/ Return
    \/ Arm_Tf(TableOps)
    \/ Arm_Tj(TableOps)

SpecTable == InitTable /\ [][NextTable]_vars

\* The font dictionary named "Simple" of the page rendered.
SimpleOfPage == CHOOSE f \in FontsOfPage(page_no) : f.name = "Simple"

\* The entry e holds the table: key i maps to the glyph table[i], for every
\* index i (the indices count from 0, the sequence from 1).
HoldsTable(e, table) ==
    /\ e.is_cid
    /\ e.encoding.kind = "Cmap"
    /\ \A i \in 0..(Len(table) - 1) :
          i \in DOMAIN e.encoding.cmap /\ e.encoding.cmap[i] = table[i + 1]

\* C27: when the document font has a cid-to-gid table, the entry built has
\* is_cid = true and a map in which, for every index i of the table, whatever
\* the length of the table, the key i maps to GlyphId(table[i]): the entry of
\* no index is lost or overwritten by that of another.
C27_Table ==
    (pc = "loop" /\ SimpleOfPage.cid_to_gid_map.some) =>
        HoldsTable(fonts["Simple"], SimpleOfPage.cid_to_gid_map.v)

\* ------------------------------------------------------------------------
\* The encoding FontEntry::build chooses
\* ------------------------------------------------------------------------
BuildOps ==
    {Operation("Tf", <<PName("F1"), I(10)>>), Operation("Tj", <<PString(<<65>>)>>),
     Operation("Tj", <<PString(<<128, 200>>)>>), Operation("Tj", <<PString(<<0, 1>>)>>)}

MaxOpsBuild == 3

BuildPages == 3..(Len(BuildCases) + 2)

InitBuild == InitOn(MaxOpsBuild, {UsizeMax}, BuildPages)

NextBuild ==
    \/ Begin
    \/ Return
    \/ Arm_Tf(BuildOps)
    \/ Arm_Tj(BuildOps)

SpecBuild == InitBuild /\ [][NextBuild]_vars

IdentityH(pf) == pf.encoding.some /\ pf.encoding.v.base = "IdentityH"

\* A transcoder from the named encoding of pf to the encoding of its font.
TranscoderPair(pf) ==
    /\ pf.encoding.some
    /\ pf.encoding.v.base \in {"StandardEncoding", "SymbolEncoding", "WinAnsiEncoding"}
    /\ pf.font.encoding.some

\* The glyph of the code b by the named encoding, or by taking the byte as
\* the code point when there is no transcoder pair.
NamedGid(pf, b) ==
    IF TranscoderPair(pf)
    THEN IF transcoder_translate(pf.encoding.v.base, pf.font.encoding.v, b).some
         THEN gid_for_codepoint(pf.font,
                  transcoder_translate(pf.encoding.v.base, pf.font.encoding.v, b).v)
         ELSE None
    ELSE gid_for_codepoint(pf.font, b)

DifferencesOf(pf) == IF pf.encoding.some THEN pf.encoding.v.differences ELSE MapEmpty

\* The differences entry of the code names a glyph the font knows.
Overrides(pf, code) ==
    code \in DOMAIN DifferencesOf(pf) /\ gid_for_name(pf.font, DifferencesOf(pf)[code]).some

\* The map of the last branch: the named one with the known differences over it.
NamedMap(pf) ==
    [code \in {b \in 0..255 : NamedGid(pf, b).some}
                \cup {c \in DOMAIN DifferencesOf(pf) : Overrides(pf, c)} |->
        IF Overrides(pf, code) THEN gid_for_name(pf.font, DifferencesOf(pf)[code]).v
        ELSE NamedGid(pf, code).v]

MapEncoding(e, m) == e.encoding.kind = "Cmap" /\ e.encoding.cmap = m

ByPrecedence(e, pf) ==
    IF pf.cid_to_gid_map.some THEN e.is_cid /\ e.encoding.kind = "Cmap"
    ELSE IF IdentityH(pf) THEN e.is_cid /\ e.encoding.kind = "CID"
    ELSE IF DOMAIN NamedMap(pf) = {} THEN e.encoding.kind = "CID" /\ e.is_cid = pf.is_cid
    ELSE MapEncoding(e, NamedMap(pf))

\* C28: FontEntry::build chooses the encoding by precedence: a cid-to-gid
\* table gives is_cid true and a map, also under identity-h; else identity-h
\* gives is_cid true and CID; else the map over the codes 0..255 of the named
\* encoding (of the byte as code point without a transcoder pair), in which a
\* differences entry with a name the font knows overrides the code's entry
\* and one with an unknown name leaves it; only here an empty map falls back
\* to CID, is_cid staying as the font says.
C28_Precedence == pc = "loop" => ByPrecedence(fonts["Simple"], SimpleOfPage)

\* The font with WinAnsi and the differences 66 /A, 65 /zed, 200 /Euro, 32 /A:
\* 128 is the Euro by the encoding, 32 and 66 and 200 by the differences, 65
\* stays.
C28_Witness ==
    /\ pc = "loop"
    /\ page_no = 7
    /\ ~fonts["Simple"].is_cid
    /\ fonts["Simple"].encoding =
           TextEncodingCmap((32 :> 1 @@ 65 :> 1 @@ 66 :> 1 @@ 128 :> 3 @@ 200 :> 3))

\* ------------------------------------------------------------------------
\* The BBox accumulator
\* ------------------------------------------------------------------------
\* How many rects the accumulators are given in all.
MaxAdds == 3

\* The rects given: those with corners on the grid 0..2.
Grid == 0..2

GridRects ==
    {[origin |-> Vector2F(F(x1), F(y1)), lower_right |-> Vector2F(F(x2), F(y2))] :
        <<x1, y1, x2, y2>> \in {c \in Grid \X Grid \X Grid \X Grid :
                                    c[1] < c[3] /\ c[2] < c[4]}}

InitBBox == InitOn(0, {UsizeMax}, {1}) /\ ~has_contents

Given == Cardinality(bboxes.self_rects) + Cardinality(bboxes.arg_rects)

BBoxUnchanged ==
    UNCHANGED <<pc, fonts, has_contents, len, num_ops, contents, graphics_state, text_state,
                stack, path_builder, scene, items, result, trace, page_no, query>>

\* self_bbox.add(r)
Add_self(R) ==
    /\ Given < MaxAdds
    /\ \E r \in R :
          bboxes' = BBoxes(BBoxAdd(bboxes.self_bbox, r), bboxes.arg_bbox,
                           bboxes.self_rects \cup {r}, bboxes.arg_rects, "add")
    /\ BBoxUnchanged

\* arg_bbox.add(r)
Add_arg(R) ==
    /\ Given < MaxAdds
    /\ \E r \in R :
          bboxes' = BBoxes(bboxes.self_bbox, BBoxAdd(bboxes.arg_bbox, r),
                           bboxes.self_rects, bboxes.arg_rects \cup {r}, "add")
    /\ BBoxUnchanged

\* self_bbox.add_bbox(arg_bbox)
Add_bbox ==
    /\ bboxes' = BBoxes(BBoxAddBBox(bboxes.self_bbox, bboxes.arg_bbox), bboxes.arg_bbox,
                        bboxes.self_rects \cup bboxes.arg_rects, bboxes.arg_rects, "add_bbox")
    /\ BBoxUnchanged

\* arg_bbox = BBox::empty()
Empty_arg ==
    /\ bboxes.arg_bbox.some
    /\ bboxes' = BBoxes(bboxes.self_bbox, BBoxEmpty, bboxes.self_rects, {}, "empty")
    /\ BBoxUnchanged

NextBBox ==
    \/ Add_self(GridRects)
    \/ Add_arg(GridRects)
    \/ Add_bbox
    \/ Empty_arg

SpecBBox == InitBBox /\ [][NextBBox]_vars

\* The union of the rects of S, whatever the order: the least origin and the
\* greatest lower right corner.
UnionOf(S) ==
    IF S = {} THEN BBoxEmpty
    ELSE Some([origin |-> Vector2F(RMinOf({r.origin[1] : r \in S}),
                                   RMinOf({r.origin[2] : r \in S})),
               lower_right |-> Vector2F(RMaxOf({r.lower_right[1] : r \in S}),
                                        RMaxOf({r.lower_right[2] : r \in S}))])

BBoxStep ==
    /\ bboxes'.self_bbox = UnionOf(bboxes'.self_rects)
    /\ bboxes'.arg_bbox = UnionOf(bboxes'.arg_rects)
    /\ bboxes.self_bbox.some => bboxes'.self_bbox.some
    /\ bboxes'.call = "add_bbox" =>
          /\ ~bboxes.arg_bbox.some => bboxes'.self_bbox = bboxes.self_bbox
          /\ ~bboxes.self_bbox.some => bboxes'.self_bbox = bboxes.arg_bbox

\* C29: the accumulator is empty or the union of every rect added, in
\* whatever order and grouping add and add_bbox were called; add_bbox of an
\* empty bbox leaves it unchanged, add_bbox on an empty accumulator yields
\* the bbox added, and a non-empty accumulator never becomes empty again.
C29_BBoxUnion == [][BBoxStep]_vars

\* Two rects added to the one accumulator, a third through the other and
\* add_bbox: the union spans the grid.
C29_Witness ==
    /\ bboxes.call = "add_bbox"
    /\ Cardinality(bboxes.self_rects) = 3
    /\ Cardinality(bboxes.arg_rects) = 1
    /\ bboxes.self_bbox =
           Some([origin |-> VZero, lower_right |-> Vector2F(F(2), F(2))])

====
